---- MODULE Spec2Model ----
(***************************************************************************)
(* A model of the paymass-server backend: the off-ramp order flow          *)
(* (routes/ramps.ts, services/offrampServices.ts, WalletService), the      *)
(* settlement webhook (transactionStatusTracker), wallet creation, balance *)
(* reconciliation, the JWT middleware and the admin services.              *)
(*                                                                         *)
(* Tables of the database are sequences of rows; a row's primary key is    *)
(* its position.  External providers (Paycrest, BlockRadar, Firebase) are  *)
(* modelled by the log of the calls made to them and by a nondeterministic *)
(* answer to every call.  Amounts are whole units.                         *)
(***************************************************************************)
EXTENDS Integers, Sequences, FiniteSets, TLC

\* ------------------------------------------------------------------ bounds
MaxAmount   == 2   \* largest amount / provider balance / fee drawn as input
InitBalance == 3   \* balance of a funded wallet in the initial state
MaxHooks    == 2   \* settlement webhook deliveries per behaviour
MaxTx       == 3   \* rows of the transactions table per behaviour
MaxSessions == 2   \* rows of the user_sessions table per behaviour

Users    == {"u1", "u2"}
ReqIds   == {1, 2}  \* the POST /api/ramps/orders requests of a behaviour
AdminIds == {"adm1"}
NoId     == 0      \* a NULL foreign key / absent row

Amounts == 1..MaxAmount
Fees    == 0..1

\* prisma enum TransactionStatus
TransactionStatus == {"PENDING", "PROCESSING", "COMPLETED", "FAILED", "CANCELLED"}

\* ------------------------------------------------------- WalletService data
\* NETWORK_CONFIGS, restricted to two critical networks and one other one.
Networks == {"Base", "Ethereum", "Solana"}

NetworkOrder == <<"Base", "Ethereum", "Solana">>
CriticalNetworks == <<"Base", "Ethereum">>

NetworkCurrencies(network) ==
    IF network = "Solana" THEN <<"SOL", "USDT", "USDC">> ELSE <<"ETH", "USDT", "USDC">>

\* assetIds come from the environment: Base and Ethereum read the same
\* variables (ASSET_ID_ETH, ASSET_ID_USDT, ASSET_ID_USDC), Solana its own.
NetworkAssetId(network, currency) ==
    IF network = "Solana" THEN <<"ASSET_ID", currency, "SOL">>
    ELSE <<"ASSET_ID", currency>>

\* EncryptionService.encrypt / decrypt (AES under ENCRYPTION_SECRET)
Encrypt(text) == <<"AES", text>>
Decrypt(encryptedText) == encryptedText[2]

\* generateWalletAddress: the address and key material BlockRadar returns
BlockRadarAddress(userId, network) ==
    [address    |-> <<"blockradar-address", network, userId>>,
     privateKey |-> <<"blockradar-key", network, userId>>]

\* generateFallbackWallet: address and key made of local randomBytes
generateFallbackWallet(userId, network) ==
    [address    |-> <<"mock-address", network, userId>>,
     privateKey |-> <<"randomBytes", network, userId>>]

\* one row of the wallets table (balance DEFAULT 0, isActive DEFAULT true)
WalletRow(userId, currency, network, assetId, address, encryptedKey) ==
    [userId |-> userId, currency |-> currency, network |-> network,
     assetId |-> assetId, address |-> address, privateKey |-> encryptedKey,
     balance |-> 0, isActive |-> TRUE]

\* one row of the transactions table
TxRow(userId, sender, receiver, type, status, currency, amount, fee, addr) ==
    [userId |-> userId, senderWalletId |-> sender, receiverWalletId |-> receiver,
     type |-> type, status |-> status, currency |-> currency,
     amount |-> amount, fee |-> fee, externalAddress |-> addr,
     completedAt |-> (status = "COMPLETED"), originalTransactionId |-> NoId,
     retryCount |-> 0, isRecredit |-> FALSE]

\* ids of the two id spaces a webhook's orderId can come from
TxId(n)    == <<"tx", n>>
OrderId(n) == <<"order", n>>

\* ----------------------------------------------------------------- tokens
\* generateTokens: an access token signed with APP_AUTH_KEY
AccessToken(userId, n) == [userId |-> userId, type |-> "access", n |-> n]
NoToken  == [userId |-> "", type |-> "none", n |-> 0]
BadToken == [userId |-> "u1", type |-> "forged", n |-> 0]

\* users.transactionPin is NULL
NoPin == <<>>

VARIABLES
    users,         \* users table: userId -> [registered, isActive, firebaseToken,
                   \*   transactionPin, isVerified, ninVerified, verifications (the
                   \*   rows of the verifications table that belong to the user)]
    admins,        \* Admin table: set of admin ids
    sessions,      \* user_sessions table: Seq of [userId, token, isActive]
    jwtIssued,     \* tokens signed with APP_AUTH_KEY so far
    jwtExpired,    \* issued tokens whose lifetime is over
    wallets,       \* wallets table
    transactions,  \* transactions table
    extCalls,      \* log of calls to Paycrest and BlockRadar with their answers
    notifications, \* push notifications handed to Firebase
    reqs,          \* requests that take several steps: position and locals
    hooks,         \* settlement webhook deliveries handled so far
    lastResp,      \* the response of the last handler that completed
    configured     \* networks whose walletId and apiKey are set in the environment

vars == <<users, admins, sessions, jwtIssued, jwtExpired, wallets, transactions,
          extCalls, notifications, reqs, hooks, lastResp, configured>>

Range(s) == {s[i] : i \in DOMAIN s}

RECURSIVE Concat(_)
Concat(ss) == IF ss = <<>> THEN <<>> ELSE Head(ss) \o Concat(Tail(ss))

\* ------------------------------------------------ wallet creation (rows)
\* the rows pushed for one network: one per currency, sharing address and key
NetworkWallets(userId, network, address, encryptedKey, fallbackAssetIds) ==
    [i \in 1..Len(NetworkCurrencies(network)) |->
        LET currency == NetworkCurrencies(network)[i] IN
        WalletRow(userId, currency, network,
                  IF fallbackAssetIds THEN <<"fallback", network, currency>>
                  ELSE NetworkAssetId(network, currency),
                  address, encryptedKey)]

\* the unique index wallets(userId, currency, network)
WalletKey(w) == <<w.userId, w.currency, w.network>>
UniqueOk(table, rows) ==
    \E new \in {rows} :
        /\ \A i \in DOMAIN new : \A j \in DOMAIN table : WalletKey(new[i]) # WalletKey(table[j])
        /\ \A i, j \in DOMAIN new : i # j => WalletKey(new[i]) # WalletKey(new[j])

\* createFallbackWallets: rows with locally generated keys for Base and Ethereum
createFallbackWallets(userId) ==
    Concat([k \in 1..Len(CriticalNetworks) |->
        LET network == CriticalNetworks[k]
            fallbackWallet == generateFallbackWallet(userId, network) IN
        NetworkWallets(userId, network, fallbackWallet.address,
                       Encrypt(fallbackWallet.privateKey), TRUE)])

\* the body of walletGenerationPromises for one network; answer is what
\* BlockRadar did: "key" (address and key), "nokey" (address only), "error"
GenerateForNetwork(userId, network, answer) ==
    IF answer = "key"
    THEN LET blockRadarWallet == BlockRadarAddress(userId, network) IN
         NetworkWallets(userId, network, blockRadarWallet.address,
                        Encrypt(blockRadarWallet.privateKey), FALSE)
    ELSE IF answer = "error" /\ network \in Range(CriticalNetworks)
    THEN LET fallbackWallet == generateFallbackWallet(userId, network) IN
         NetworkWallets(userId, network, fallbackWallet.address,
                        Encrypt(fallbackWallet.privateKey), FALSE)
    ELSE <<>>

\* createUserWalletsWithBlockRadar: [ok, rows] given the table, the configured
\* networks, BlockRadar's answer per network and the database's behaviour:
\* "up", "flaky" (the first $transaction of the call fails) or "down"
createUserWalletsWithBlockRadar(table, userId, available, answers, db) ==
    LET walletDataToCreate ==
            Concat([k \in 1..Len(NetworkOrder) |->
                IF NetworkOrder[k] \in available
                THEN GenerateForNetwork(userId, NetworkOrder[k], answers[NetworkOrder[k]])
                ELSE <<>>])
        fallback == createFallbackWallets(userId)
        first == IF available = {} \/ walletDataToCreate = <<>>
                 THEN fallback ELSE walletDataToCreate
        \* the catch block: createFallbackWallets as last resort
        retryOk == db # "down" /\ UniqueOk(table, fallback)
    IN  IF db = "up" /\ UniqueOk(table, first)
        THEN [ok |-> TRUE, rows |-> first]
        ELSE [ok |-> retryOk, rows |-> IF retryOk THEN fallback ELSE <<>>]

\* generateSingleNetworkWallet: rows for one network, no fallback
generateSingleNetworkWallet(userId, network, available, answer) ==
    IF network \notin available \/ answer # "key"
    THEN [success |-> FALSE, wallets |-> <<>>]
    ELSE LET blockRadarWallet == BlockRadarAddress(userId, network) IN
         [success |-> TRUE,
          wallets |-> NetworkWallets(userId, network, blockRadarWallet.address,
                                     Encrypt(blockRadarWallet.privateKey), FALSE)]

\* ------------------------------------------------------------- middleware
\* authenticateToken: 401 without a token, 403 when jwt.verify throws,
\* otherwise req.user is taken from the token's payload
authenticateToken(token) ==
    IF token = NoToken THEN [status |-> 401, userId |-> ""]
    ELSE IF token \in jwtIssued \ jwtExpired
    THEN [status |-> 200, userId |-> token.userId]
    ELSE [status |-> 403, userId |-> ""]

AuthInputs == {NoToken, BadToken} \cup jwtIssued

Resp(op, status) == [op |-> op, status |-> status]

\* ------------------------------------------------------ Paycrest, BlockRadar
ReceiveAddress(n) == <<"receive-address", n>>

\* orders created at Paycrest so far
PaycrestOrders == SelectSeq(extCalls, LAMBDA c : c.api = "paycrest.orders" /\ c.answer = "success")
\* withdrawals BlockRadar has taken on (its answer may have been lost)
CustodyWithdrawals ==
    SelectSeq(extCalls, LAMBDA c : c.api = "blockradar.withdraw" /\ c.answer # "rejected")

ExtCall(api, r, answer, orderId, from, toAddress, amount, reference) ==
    [api |-> api, req |-> r, answer |-> answer, orderId |-> orderId, from |-> from,
     toAddress |-> toAddress, amount |-> amount, reference |-> reference]

\* the payload of POST /sender/orders carries the recipient
OrderCall(call, recipient) == call @@ [recipient |-> recipient]

\* ------------------------------------------------- POST /api/ramps/orders
Tokens     == {"USDT", "SOL"}
References == {"ref1", "ref2"}
\* a recipient with every field, and one without its account name
Complete   == [institution |-> "GTB", accountIdentifier |-> "0123456789",
               accountName |-> <<"ada", "obi">>, currency |-> "NGN"]
Incomplete == [Complete EXCEPT !.accountName = <<>>]
Recipients == {Complete, Incomplete}

IdleReq == [pc |-> "idle", userId |-> "", token |-> "", amount |-> 0, reference |-> "",
            orderId |-> NoId, txId |-> NoId, walletId |-> NoId, http |-> 0,
            balance |-> 0]

Finish(r, status) == reqs' = [reqs EXCEPT ![r].pc = "done", ![r].http = status]

\* initializeOrder returning an order whatever Paycrest answered
initializeOrderNoThrow(r, userId, token, amount, reference, recipient, answer) ==
    LET n == Len(PaycrestOrders) + 1 IN
    /\ extCalls' = Append(extCalls,
            OrderCall(ExtCall("paycrest.orders", r, answer,
                    IF answer = "success" THEN n ELSE NoId, "",
                    IF answer = "success" THEN ReceiveAddress(n) ELSE "", amount, reference),
                      recipient))
    /\ reqs' = [reqs EXCEPT ![r] = [IdleReq EXCEPT !.pc = "ordered", !.userId = userId,
                      !.token = token, !.amount = amount, !.reference = reference,
                      !.orderId = IF answer = "success" THEN n ELSE NoId]]

\* initializeOrder answering a repeated reference with the order made for it
initializeOrderOncePerReference(r, userId, token, amount, reference, recipient, answer) ==
    LET n == Len(PaycrestOrders) + 1
        made == {i \in DOMAIN extCalls : /\ extCalls[i].api = "paycrest.orders"
                                         /\ extCalls[i].answer = "success"
                                         /\ extCalls[i].reference = reference}
    IN  IF made # {}
        THEN /\ UNCHANGED extCalls
             /\ reqs' = [reqs EXCEPT ![r] = [IdleReq EXCEPT !.pc = "ordered",
                               !.userId = userId, !.token = token, !.amount = amount,
                               !.reference = reference,
                               !.orderId = extCalls[CHOOSE i \in made : TRUE].orderId]]
        ELSE
        /\ extCalls' = Append(extCalls,
                OrderCall(ExtCall("paycrest.orders", r, answer,
                        IF answer = "success" THEN n ELSE NoId, "",
                        IF answer = "success" THEN ReceiveAddress(n) ELSE "", amount, reference),
                          recipient))
        /\ IF answer = "success"
           THEN reqs' = [reqs EXCEPT ![r] = [IdleReq EXCEPT !.pc = "ordered", !.userId = userId,
                             !.token = token, !.amount = amount, !.reference = reference,
                             !.orderId = n]]
           ELSE reqs' = [reqs EXCEPT ![r] = [IdleReq EXCEPT !.pc = "done", !.userId = userId,
                             !.token = token, !.amount = amount, !.reference = reference,
                             !.http = 500]]

\* offrampServices.initializeOrder: POST /sender/orders at Paycrest; the
\* order is returned when the answer says "success", anything else throws
initializeOrder(r, userId, token, amount, reference, recipient, answer) ==
    LET n == Len(PaycrestOrders) + 1 IN
    /\ extCalls' = Append(extCalls,
            OrderCall(ExtCall("paycrest.orders", r, answer,
                    IF answer = "success" THEN n ELSE NoId, "",
                    IF answer = "success" THEN ReceiveAddress(n) ELSE "", amount, reference),
                      recipient))
    /\ IF answer = "success"
       THEN reqs' = [reqs EXCEPT ![r] = [IdleReq EXCEPT !.pc = "ordered", !.userId = userId,
                         !.token = token, !.amount = amount, !.reference = reference,
                         !.orderId = n]]
       ELSE reqs' = [reqs EXCEPT ![r] = [IdleReq EXCEPT !.pc = "done", !.userId = userId,
                         !.token = token, !.amount = amount, !.reference = reference,
                         !.http = 500]]

\* the handler up to the end of "await offrampServices.initializeOrder(...)"
OrdersInitializeOrder(r, auth, token, amount, reference, recipient, answer) ==
    /\ reqs[r].pc = "idle"
    /\ r > 1 => reqs[r - 1].pc # "idle"
    /\ LET a == authenticateToken(auth) IN
       IF a.status # 200
       THEN /\ reqs' = [reqs EXCEPT ![r] = [IdleReq EXCEPT !.pc = "done", !.http = a.status]]
            /\ UNCHANGED extCalls
       ELSE IF \/ recipient.institution = "" \/ recipient.accountIdentifier = ""
               \/ recipient.accountName = <<>> \/ recipient.currency = ""
       THEN /\ reqs' = [reqs EXCEPT ![r] = [IdleReq EXCEPT !.pc = "done", !.userId = a.userId,
                                               !.http = 400]]
            /\ UNCHANGED extCalls
       ELSE initializeOrder(r, a.userId, token, amount, reference, recipient, answer)
    /\ UNCHANGED <<users, admins, sessions, jwtIssued, jwtExpired, wallets, transactions,
                   notifications, hooks, lastResp, configured>>

\* transferAsset recording the withdrawal as settled at once
transferAssetCompleted(r, userId, assetId, toAddress, amount, currency, answer, fee) ==
    LET found == {i \in DOMAIN wallets :
                    /\ wallets[i].userId = userId /\ wallets[i].assetId = assetId
                    /\ wallets[i].currency = currency /\ wallets[i].isActive}
    IN  IF found = {}
        THEN /\ Finish(r, 500)
             /\ UNCHANGED <<wallets, transactions, extCalls>>
        ELSE \E w2 \in found :
             IF wallets[w2].balance < amount
             THEN /\ Finish(r, 500)
                  /\ UNCHANGED <<wallets, transactions, extCalls>>
             ELSE
             /\ extCalls' = Append(extCalls,
                    ExtCall("blockradar.withdraw", r, answer, NoId, wallets[w2].address,
                            toAddress, amount, ""))
             /\ IF answer = "accepted"
                THEN /\ wallets' = [wallets EXCEPT ![w2].balance = @ - amount]
                     /\ transactions' = Append(transactions,
                            TxRow(userId, w2, NoId, "WITHDRAWAL", "COMPLETED", currency,
                                  amount, fee, toAddress))
                     /\ reqs' = [reqs EXCEPT ![r].pc = "done", ![r].http = 200,
                                             ![r].txId = Len(transactions) + 1,
                                             ![r].walletId = w2]
                ELSE /\ Finish(r, 500)
                     /\ UNCHANGED <<wallets, transactions>>

\* transferAsset debiting the wallet before it calls BlockRadar
transferAssetDebitFirst(r, userId, assetId, toAddress, amount, currency, answer, fee) ==
    LET found == {i \in DOMAIN wallets :
                    /\ wallets[i].userId = userId /\ wallets[i].assetId = assetId
                    /\ wallets[i].currency = currency /\ wallets[i].isActive}
    IN  IF found = {}
        THEN /\ Finish(r, 500)
             /\ UNCHANGED <<wallets, transactions, extCalls>>
        ELSE \E w2 \in found :
             IF wallets[w2].balance < amount
             THEN /\ Finish(r, 500)
                  /\ UNCHANGED <<wallets, transactions, extCalls>>
             ELSE
             /\ extCalls' = Append(extCalls,
                    ExtCall("blockradar.withdraw", r, answer, NoId, wallets[w2].address,
                            toAddress, amount, ""))
             /\ wallets' = [wallets EXCEPT ![w2].balance = @ - amount]
             /\ IF answer = "accepted"
                THEN /\ transactions' = Append(transactions,
                            TxRow(userId, w2, NoId, "WITHDRAWAL", "PROCESSING", currency,
                                  amount, fee, toAddress))
                     /\ reqs' = [reqs EXCEPT ![r].pc = "done", ![r].http = 200,
                                             ![r].txId = Len(transactions) + 1,
                                             ![r].walletId = w2]
                ELSE /\ Finish(r, 500)
                     /\ UNCHANGED transactions

\* WalletService.transferAsset: result of the call for wallet lookup choice w2
\* and BlockRadar's answer ("accepted", "rejected", or "timeout": taken on by
\* BlockRadar but no response within the client's timeout)
transferAsset(r, userId, assetId, toAddress, amount, currency, answer, fee) ==
    LET found == {i \in DOMAIN wallets :
                    /\ wallets[i].userId = userId /\ wallets[i].assetId = assetId
                    /\ wallets[i].currency = currency /\ wallets[i].isActive}
    IN  IF found = {}
        THEN /\ Finish(r, 500)
             /\ UNCHANGED <<wallets, transactions, extCalls>>
        ELSE \E w2 \in found :   \* findFirst without orderBy: any matching row
             IF wallets[w2].balance < amount
             THEN /\ Finish(r, 500)
                  /\ UNCHANGED <<wallets, transactions, extCalls>>
             ELSE
             /\ extCalls' = Append(extCalls,
                    ExtCall("blockradar.withdraw", r, answer, NoId, wallets[w2].address,
                            toAddress, amount, ""))
             /\ IF answer = "accepted"
                THEN /\ wallets' = [wallets EXCEPT ![w2].balance = @ - amount]
                     /\ transactions' = Append(transactions,
                            TxRow(userId, w2, NoId, "WITHDRAWAL", "PROCESSING", currency,
                                  amount, fee, toAddress))
                     /\ reqs' = [reqs EXCEPT ![r].pc = "done", ![r].http = 200,
                                             ![r].txId = Len(transactions) + 1,
                                             ![r].walletId = w2]
                ELSE /\ Finish(r, 500)
                     /\ UNCHANGED <<wallets, transactions>>

\* the rest of the handler: wallet lookup by (userId, currency), transferAsset
OrdersTransferAsset(r, answer, fee) ==
    /\ reqs[r].pc = "ordered"
    /\ Len(transactions) < MaxTx
    /\ LET userId == reqs[r].userId
           owned == {i \in DOMAIN wallets :
                        wallets[i].userId = userId /\ wallets[i].currency = reqs[r].token}
       IN  IF owned = {}
           THEN /\ Finish(r, 404)
                /\ UNCHANGED <<wallets, transactions, extCalls>>
           ELSE \E w \in owned :   \* findFirst without orderBy: any matching row
                transferAsset(r, userId, wallets[w].assetId, ReceiveAddress(reqs[r].orderId),
                              reqs[r].amount, reqs[r].token, answer, fee)
    /\ UNCHANGED <<users, admins, sessions, jwtIssued, jwtExpired, notifications, hooks,
                   lastResp, configured>>


\* ------------------------------ POST /api/ramps/verify-offramp-transaction
WebhookSecret == "PAYCREST_WEBHOOK_SECRET"
Hmac(key, payload) == <<"hmac-sha256", key, payload>>
NoSignature == <<"no-signature">>

\* statuses a delivery may report: values of the enum and Paycrest's own word
WebhookStatuses == {"COMPLETED", "FAILED", "validated"}

Signatures(body) == {Hmac(WebhookSecret, body), Hmac("other-secret", body), NoSignature}

\* ids a delivery may name: the orders created and the ledger rows
WebhookIds == {OrderId(n) : n \in 1..Len(PaycrestOrders)}
                \cup {TxId(n) : n \in 1..Len(transactions)}

Hook(signature, body, status) ==
    [valid |-> signature = Hmac(WebhookSecret, body), orderId |-> body.orderId,
     status |-> body.status, http |-> status]

\* the handler without Step 1, the check of the signature
transactionStatusTrackerUnverified(signature, body) ==
    /\ Len(hooks) < MaxHooks
    /\ LET rows == {i \in DOMAIN transactions : TxId(i) = body.orderId}
       IN  IF rows = {} \/ body.status \notin TransactionStatus
           THEN /\ hooks' = Append(hooks, Hook(signature, body, 500))
                /\ UNCHANGED <<transactions, notifications>>
           ELSE LET i == CHOOSE i \in rows : TRUE IN
                /\ transactions' = [transactions EXCEPT ![i].status = body.status]
                /\ notifications' =
                      IF users[transactions[i].userId].firebaseToken
                      THEN Append(notifications,
                                  [userId |-> transactions[i].userId, orderId |-> body.orderId])
                      ELSE notifications
                /\ hooks' = Append(hooks, Hook(signature, body, 200))
    /\ UNCHANGED <<users, admins, sessions, jwtIssued, jwtExpired, wallets, extCalls, reqs,
                   lastResp, configured>>

transactionStatusTracker(signature, body) ==
    /\ Len(hooks) < MaxHooks
    /\ LET expectedSignature == Hmac(WebhookSecret, body)
           rows == {i \in DOMAIN transactions : TxId(i) = body.orderId}
       IN  IF signature # expectedSignature
           THEN /\ hooks' = Append(hooks, Hook(signature, body, 403))
                /\ UNCHANGED <<transactions, notifications>>
           ELSE IF rows = {} \/ body.status \notin TransactionStatus
           THEN \* prisma.transaction.update throws: no such row, or not a
                \* value of the enum; the outer catch answers 500
                /\ hooks' = Append(hooks, Hook(signature, body, 500))
                /\ UNCHANGED <<transactions, notifications>>
           ELSE LET i == CHOOSE i \in rows : TRUE IN
                /\ transactions' = [transactions EXCEPT ![i].status = body.status]
                /\ notifications' =
                      IF users[transactions[i].userId].firebaseToken
                      THEN Append(notifications,
                                  [userId |-> transactions[i].userId, orderId |-> body.orderId])
                      ELSE notifications
                /\ hooks' = Append(hooks, Hook(signature, body, 200))
    /\ UNCHANGED <<users, admins, sessions, jwtIssued, jwtExpired, wallets, extCalls, reqs,
                   lastResp, configured>>

\* ------------------------------------------------------------ initial states
AllKeys == [n \in Networks |-> "key"]

\* the wallets table after both users registered with Base and Ethereum
\* configured and BlockRadar answering
Registered ==
    LET w1 == createUserWalletsWithBlockRadar(<<>>, "u1", {"Base", "Ethereum"}, AllKeys, "up").rows
        w2 == createUserWalletsWithBlockRadar(w1, "u2", {"Base", "Ethereum"}, AllKeys, "up").rows
    IN  w1 \o w2

\* ... and after the first user's deposits were reconciled
Funded ==
    [i \in DOMAIN Registered |->
        IF Registered[i].userId # "u1" THEN Registered[i]
        ELSE IF Registered[i].network = "Base"
        THEN [Registered[i] EXCEPT !.balance = InitBalance]
        ELSE [Registered[i] EXCEPT !.balance = 1]]

LoggedIn == [i \in 1..2 |->
                LET u == IF i = 1 THEN "u1" ELSE "u2" IN
                [userId |-> u, token |-> AccessToken(u, i), isActive |-> TRUE]]

InitCommon ==
    /\ users = [u \in Users |-> [registered |-> TRUE, isActive |-> TRUE,
                                  firebaseToken |-> (u = "u1"),
                                  transactionPin |-> NoPin,
                                  isVerified |-> FALSE, ninVerified |-> FALSE,
                                  verifications |-> <<>>]]
    /\ admins = AdminIds
    /\ sessions = LoggedIn
    /\ jwtIssued = {LoggedIn[i].token : i \in DOMAIN LoggedIn}
    /\ jwtExpired = {}
    /\ transactions = <<>>
    /\ extCalls = <<>>
    /\ notifications = <<>>
    /\ reqs = [r \in ReqIds |-> IdleReq]
    /\ hooks = <<>>
    /\ lastResp = Resp("none", 0)
    /\ configured = Networks

InitOfframp ==
    /\ InitCommon
    /\ wallets = Funded

\* two order requests of any content, no settlement
NextOrders ==
    \/ \E r \in ReqIds, auth \in AuthInputs, token \in Tokens, amount \in Amounts,
          reference \in References, recipient \in Recipients,
          answer \in {"success", "error"} :
            OrdersInitializeOrder(r, auth, token, amount, reference, recipient, answer)
    \/ \E r \in ReqIds, answer \in {"accepted", "rejected", "timeout"} :
            OrdersTransferAsset(r, answer, 0)

SpecOrders == InitOfframp /\ [][NextOrders]_vars

\* one order request and the settlement webhook deliveries
NextSettlement ==
    \/ \E auth \in AuthInputs, amount \in Amounts, answer \in {"success", "error"} :
            OrdersInitializeOrder(1, auth, "USDT", amount, "ref1", Complete, answer)
    \/ \E answer \in {"accepted", "rejected", "timeout"} :
            OrdersTransferAsset(1, answer, 0)
    \/ \E orderId \in WebhookIds, status \in WebhookStatuses :
          LET body == [orderId |-> orderId, status |-> status] IN
          \E signature \in Signatures(body) : transactionStatusTracker(signature, body)

SpecSettlement == InitOfframp /\ [][NextSettlement]_vars


\* ------------------------------------------------------- wallet creation
\* what BlockRadar answers per network: the networks in failed get the
\* answer a, the others an address with its key
ProviderAnswers ==
    {[n \in Networks |-> IF n \in failed THEN a ELSE "key"] :
        failed \in {{}, {"Base"}, {"Solana"}, Networks}, a \in {"nokey", "error"}}
\* the sets of networks whose wallet id and API key are in the environment
Deployments == {{}, {"Base", "Ethereum"}, Networks}
DbStates == {"up", "flaky", "down"}

\* AuthService.register: the user row, the wallets (a failure is logged and
\* swallowed), the tokens and the session
register(u, answers, db) ==
    /\ Len(sessions) < MaxSessions
    /\ IF users[u].registered
       THEN /\ lastResp' = Resp("register", 400)
            /\ UNCHANGED <<users, wallets, sessions, jwtIssued>>
       ELSE LET created == createUserWalletsWithBlockRadar(wallets, u, configured, answers, db)
                accessToken == AccessToken(u, Len(sessions) + 1)
            IN  /\ users' = [users EXCEPT ![u].registered = TRUE, ![u].isActive = TRUE]
                /\ wallets' = wallets \o created.rows
                /\ sessions' = Append(sessions,
                        [userId |-> u, token |-> accessToken, isActive |-> TRUE])
                /\ jwtIssued' = jwtIssued \cup {accessToken}
                /\ lastResp' = Resp("register", 201)
    /\ UNCHANGED <<admins, jwtExpired, transactions, extCalls, notifications, reqs, hooks,
                   configured>>

\* a profile read that never creates wallets
getUserProfileReadOnly(auth, answers, db) ==
    /\ LET a == authenticateToken(auth) IN
       IF a.status # 200
       THEN lastResp' = Resp("me", a.status)
       ELSE lastResp' = [op |-> "me", status |-> 200, user |-> a.userId]
    /\ UNCHANGED <<users, admins, sessions, jwtIssued, jwtExpired, wallets, transactions,
                   extCalls, notifications, reqs, hooks, configured>>

\* GET /api/auth/me -> AuthService.getUserProfile: wallets are created when
\* the user has none; a failure is logged and the profile is still returned
getUserProfile(auth, answers, db) ==
    /\ LET a == authenticateToken(auth) IN
       IF a.status # 200
       THEN /\ lastResp' = Resp("me", a.status)
            /\ UNCHANGED wallets
       ELSE LET mine == {i \in DOMAIN wallets : wallets[i].userId = a.userId}
                created == createUserWalletsWithBlockRadar(wallets, a.userId, configured,
                                                           answers, db)
            IN  /\ wallets' = IF mine = {} THEN wallets \o created.rows ELSE wallets
                /\ lastResp' = [op |-> "me", status |-> 200, user |-> a.userId]
    /\ UNCHANGED <<users, admins, sessions, jwtIssued, jwtExpired, transactions, extCalls,
                   notifications, reqs, hooks, configured>>

\* POST /api/wallets/debug/create-wallets
debugCreateWallets(auth, answers, db) ==
    /\ LET a == authenticateToken(auth) IN
       IF a.status # 200
       THEN /\ lastResp' = Resp("create-wallets", a.status)
            /\ UNCHANGED wallets
       ELSE LET created == createUserWalletsWithBlockRadar(wallets, a.userId, configured,
                                                           answers, db)
            IN  /\ wallets' = wallets \o created.rows
                /\ lastResp' = Resp("create-wallets", IF created.ok THEN 200 ELSE 500)
    /\ UNCHANGED <<users, admins, sessions, jwtIssued, jwtExpired, transactions, extCalls,
                   notifications, reqs, hooks, configured>>

\* POST /api/wallets/generate/:network
generateNetworkWallet(auth, network, answer, db) ==
    /\ LET a == authenticateToken(auth) IN
       IF a.status # 200
       THEN /\ lastResp' = Resp("generate", a.status)
            /\ UNCHANGED wallets
       ELSE LET result == generateSingleNetworkWallet(a.userId, network, configured, answer)
            IN  IF ~result.success
                THEN /\ lastResp' = Resp("generate", 400)
                     /\ UNCHANGED wallets
                ELSE IF db = "up" /\ UniqueOk(wallets, result.wallets)
                THEN /\ wallets' = wallets \o result.wallets
                     /\ lastResp' = Resp("generate", 200)
                ELSE /\ lastResp' = Resp("generate", 500)
                     /\ UNCHANGED wallets
    /\ UNCHANGED <<users, admins, sessions, jwtIssued, jwtExpired, transactions, extCalls,
                   notifications, reqs, hooks, configured>>

\* u2 registered earlier (all provider calls answered) and is logged out, u1
\* has not registered yet; the environment configures one of the Deployments
InitWallets ==
    /\ users = [u \in Users |-> [registered |-> (u = "u2"), isActive |-> TRUE,
                                  firebaseToken |-> FALSE,
                                  transactionPin |-> NoPin,
                                  isVerified |-> FALSE, ninVerified |-> FALSE,
                                  verifications |-> <<>>]]
    /\ admins = AdminIds
    /\ sessions = <<>>
    /\ jwtIssued = {}
    /\ jwtExpired = {}
    /\ wallets = createUserWalletsWithBlockRadar(<<>>, "u2", {"Base", "Ethereum"},
                                                 AllKeys, "up").rows
    /\ transactions = <<>>
    /\ extCalls = <<>>
    /\ notifications = <<>>
    /\ reqs = [r \in ReqIds |-> IdleReq]
    /\ hooks = <<>>
    /\ lastResp = Resp("none", 0)
    /\ configured \in Deployments

NextWallets ==
    \/ \E u \in Users, answers \in ProviderAnswers, db \in DbStates : register(u, answers, db)
    \/ \E auth \in AuthInputs, answers \in ProviderAnswers, db \in DbStates :
            getUserProfile(auth, answers, db)
    \/ \E auth \in AuthInputs, answers \in ProviderAnswers, db \in DbStates :
            debugCreateWallets(auth, answers, db)
    \/ \E auth \in AuthInputs, network \in Networks \cup {"Unknown"},
          answer \in {"key", "nokey", "error"}, db \in DbStates :
            generateNetworkWallet(auth, network, answer, db)

SpecWallets == InitWallets /\ [][NextWallets]_vars

\* the first user registered while the database refused the wallet rows:
\* the account and its session exist, the wallets do not
InitRetry ==
    /\ users = [u \in Users |-> [registered |-> (u = "u1"), isActive |-> TRUE,
                                  firebaseToken |-> FALSE,
                                  transactionPin |-> NoPin,
                                  isVerified |-> FALSE, ninVerified |-> FALSE,
                                  verifications |-> <<>>]]
    /\ admins = AdminIds
    /\ sessions = <<[userId |-> "u1", token |-> AccessToken("u1", 1), isActive |-> TRUE]>>
    /\ jwtIssued = {AccessToken("u1", 1)}
    /\ jwtExpired = {}
    /\ wallets = <<>>
    /\ transactions = <<>>
    /\ extCalls = <<>>
    /\ notifications = <<>>
    /\ reqs = [r \in ReqIds |-> IdleReq]
    /\ hooks = <<>>
    /\ lastResp = Resp("none", 0)
    /\ configured \in Deployments

NextRetry ==
    \/ \E u \in Users, answers \in ProviderAnswers, db \in DbStates : register(u, answers, db)
    \/ \E auth \in AuthInputs, answers \in ProviderAnswers, db \in DbStates :
            getUserProfile(auth, answers, db)

HasWallet(u) == \E i \in DOMAIN wallets : wallets[i].userId = u

\* a user who holds a token keeps fetching the profile, and the database
\* does not refuse the wallet rows at every fetch
SpecRetry ==
    /\ InitRetry /\ [][NextRetry]_vars
    /\ \A u \in Users : \A n \in 1..MaxSessions :
            WF_vars(\E answers \in ProviderAnswers :
                        getUserProfile(AccessToken(u, n), answers, "up"))

\* -------------------------------------------------- balance reconciliation
\* the balance field of a BlockRadar answer: a decimal string, the empty
\* string, or no field at all
Undefined == "undefined"
BalanceStrings == {"", "0", "1"}

\* JavaScript parseFloat on the strings above
parseFloat(string) ==
    CASE string = "0" -> 0
      [] string = "1" -> 1
      [] string = "2" -> 2
      [] OTHER -> "NaN"

\* x || '0'
OrZero(x) == IF x = Undefined \/ x = "" THEN "0" ELSE x

\* getAssetBalance answers: response.data.data || {} (status is the HTTP
\* status of BlockRadar's response; anything but 200 is a throw)
BalanceAnswers == {[balance |-> b] : b \in BalanceStrings \cup {Undefined}}

\* getAssetsBalances answers: lists of [assetId, balance] of at most two entries
BalanceEntries ==
    {[assetId |-> NetworkAssetId("Base", c), balance |-> b] :
        c \in {"ETH", "USDT", "USDC"}, b \in BalanceStrings \cup {Undefined}}
BalanceLists ==
    {<<>>} \cup {<<e>> : e \in BalanceEntries}
           \cup {<<e, f>> : e \in {g \in BalanceEntries : g.balance = ""},
                            f \in {g \in BalanceEntries : g.balance = "1"}}

\* Array.prototype.find: the first entry that matches, or undefined
NotFound == [assetId |-> <<>>, balance |-> Undefined]
Find(list, assetId) ==
    LET hits == {i \in DOMAIN list : list[i].assetId = assetId} IN
    IF hits = {} THEN NotFound
    ELSE list[CHOOSE i \in hits : \A h \in hits : i <= h]

\* GET /api/wallets/balance?asset_id=
getBalance(auth, assetId, status, answer) ==
    /\ LET a == authenticateToken(auth) IN
       IF a.status # 200
       THEN /\ lastResp' = Resp("balance", a.status)
            /\ UNCHANGED wallets
       ELSE LET found == {i \in DOMAIN wallets :
                            /\ wallets[i].assetId = assetId
                            /\ wallets[i].userId = a.userId
                            /\ wallets[i].isActive} IN
            IF found = {}
            THEN /\ lastResp' = Resp("balance", 404)
                 /\ UNCHANGED wallets
            ELSE IF status # 200
            THEN /\ lastResp' = Resp("balance", 500)
                 /\ UNCHANGED wallets
            ELSE \E w \in found :
                    LET newBalance == parseFloat(OrZero(answer.balance)) IN
                    /\ wallets' = [wallets EXCEPT ![w].balance = newBalance]
                    /\ lastResp' = [op |-> "balance", status |-> 200, wallet |-> w,
                                    balance |-> newBalance, blockRadarBalance |-> answer]
    /\ UNCHANGED <<users, admins, sessions, jwtIssued, jwtExpired, transactions, extCalls,
                   notifications, reqs, hooks, configured>>

\* POST /api/wallets/balances refreshing only the wallets the provider lists
postBalancesListedOnly(auth, status, answer) ==
    /\ LET a == authenticateToken(auth) IN
       IF a.status # 200
       THEN /\ lastResp' = Resp("balances", a.status)
            /\ UNCHANGED wallets
       ELSE LET mine == {i \in DOMAIN wallets : wallets[i].userId = a.userId
                                                /\ wallets[i].isActive} IN
            IF mine = {}
            THEN /\ lastResp' = Resp("balances", 404)
                 /\ UNCHANGED wallets
            ELSE IF status # 200
            THEN /\ lastResp' = Resp("balances", 500)
                 /\ UNCHANGED wallets
            ELSE \E address \in {wallets[i].address : i \in mine} :
                    LET userWallets == {i \in mine : wallets[i].address = address}
                        newBalance(i) ==
                            LET matchingBalance == Find(answer, wallets[i].assetId) IN
                            IF matchingBalance # NotFound
                            THEN parseFloat(OrZero(matchingBalance.balance))
                            ELSE wallets[i].balance
                    IN  /\ wallets' = [i \in DOMAIN wallets |->
                                IF i \in userWallets
                                THEN [wallets[i] EXCEPT !.balance = newBalance(i)]
                                ELSE wallets[i]]
                        /\ lastResp' = [op |-> "balances", status |-> 200,
                                        wallets |-> userWallets,
                                        blockRadarBalances |-> answer]
    /\ UNCHANGED <<users, admins, sessions, jwtIssued, jwtExpired, transactions, extCalls,
                   notifications, reqs, hooks, configured>>

\* POST /api/wallets/balances: the wallets that share the address of the
\* user's first active wallet
postBalances(auth, status, answer) ==
    /\ LET a == authenticateToken(auth) IN
       IF a.status # 200
       THEN /\ lastResp' = Resp("balances", a.status)
            /\ UNCHANGED wallets
       ELSE LET mine == {i \in DOMAIN wallets : wallets[i].userId = a.userId
                                                /\ wallets[i].isActive} IN
            IF mine = {}
            THEN /\ lastResp' = Resp("balances", 404)
                 /\ UNCHANGED wallets
            ELSE IF status # 200
            THEN /\ lastResp' = Resp("balances", 500)
                 /\ UNCHANGED wallets
            ELSE \E address \in {wallets[i].address : i \in mine} :
                    LET userWallets == {i \in mine : wallets[i].address = address}
                        newBalance(i) ==
                            LET matchingBalance == Find(answer, wallets[i].assetId) IN
                            IF matchingBalance # NotFound
                            THEN parseFloat(OrZero(matchingBalance.balance))
                            ELSE 0
                    IN  /\ wallets' = [i \in DOMAIN wallets |->
                                IF i \in userWallets
                                THEN [wallets[i] EXCEPT !.balance = newBalance(i)]
                                ELSE wallets[i]]
                        /\ lastResp' = [op |-> "balances", status |-> 200,
                                        wallets |-> userWallets,
                                        blockRadarBalances |-> answer]
    /\ UNCHANGED <<users, admins, sessions, jwtIssued, jwtExpired, transactions, extCalls,
                   notifications, reqs, hooks, configured>>

\* asset ids a caller may name: those of Base/Ethereum and one of Solana
BalanceAssetIds ==
    {NetworkAssetId("Base", c) : c \in {"ETH", "USDT", "USDC"}}
        \cup {NetworkAssetId("Solana", "SOL")}

\* the first user is logged in and has reconciled deposits; the second user
\* has wallets and no session
InitBalances ==
    /\ users = [u \in Users |-> [registered |-> TRUE, isActive |-> TRUE,
                                  firebaseToken |-> (u = "u1"),
                                  transactionPin |-> NoPin,
                                  isVerified |-> FALSE, ninVerified |-> FALSE,
                                  verifications |-> <<>>]]
    /\ admins = AdminIds
    /\ sessions = <<LoggedIn[1]>>
    /\ jwtIssued = {LoggedIn[1].token}
    /\ jwtExpired = {}
    /\ wallets = Funded
    /\ transactions = <<>>
    /\ extCalls = <<>>
    /\ notifications = <<>>
    /\ reqs = [r \in ReqIds |-> IdleReq]
    /\ hooks = <<>>
    /\ lastResp = Resp("none", 0)
    /\ configured = Networks

NextBalances ==
    \/ \E auth \in AuthInputs, assetId \in BalanceAssetIds, status \in {200, 500} :
          \E answer \in IF status = 200 THEN BalanceAnswers ELSE {[balance |-> Undefined]} :
            getBalance(auth, assetId, status, answer)
    \/ \E auth \in AuthInputs, status \in {200, 500} :
          \E answer \in IF status = 200 THEN BalanceLists ELSE {<<>>} :
            postBalances(auth, status, answer)

SpecBalances == InitBalances /\ [][NextBalances]_vars


\* ------------------------------------------------------------ sign-in
\* what the middleware leaves in req.user goes into the response record
RespBy(op, status, userId) == [op |-> op, status |-> status, user |-> userId]

\* generateTokens signs with a string secret and no algorithm option (HS256)
RefreshToken(userId, n) == [userId |-> userId, type |-> "refresh", n |-> n, alg |-> "HS256"]

\* tokens of the admins: AdminAuthService.login returns generateTokens(admin.id, ...)
AdminTokens == {t \in jwtIssued : t.userId \in admins}

\* POST /admin/login
adminLogin(admin, passwordOk) ==
    /\ Cardinality(jwtIssued) <= MaxSessions
    /\ IF admin \notin admins \/ ~passwordOk
       THEN /\ lastResp' = RespBy("admin.login", 401, "")
            /\ UNCHANGED jwtIssued
       ELSE /\ jwtIssued' = jwtIssued \cup {AccessToken(admin, Cardinality(jwtIssued) + 1)}
            /\ lastResp' = RespBy("admin.login", 200, admin)
    /\ UNCHANGED <<users, admins, sessions, jwtExpired, wallets, transactions, extCalls,
                   notifications, reqs, hooks, configured>>

\* AuthService.login
login(u, passwordOk) ==
    /\ Len(sessions) < MaxSessions
    /\ IF ~users[u].registered \/ ~passwordOk \/ ~users[u].isActive
       THEN /\ lastResp' = RespBy("login", 401, u)
            /\ UNCHANGED <<sessions, jwtIssued>>
       ELSE LET accessToken == AccessToken(u, Cardinality(jwtIssued) + 1) IN
            /\ sessions' = Append(sessions,
                    [userId |-> u, token |-> accessToken, isActive |-> TRUE])
            /\ jwtIssued' = jwtIssued \cup {accessToken}
            /\ lastResp' = RespBy("login", 200, u)
    /\ UNCHANGED <<users, admins, jwtExpired, wallets, transactions, extCalls,
                   notifications, reqs, hooks, configured>>

\* the refresh tokens stored with the sessions, and a forged one
RefreshInputs ==
    {RefreshToken(sessions[i].userId, sessions[i].token.n) : i \in DOMAIN sessions}
        \cup {[userId |-> "u1", type |-> "refresh", n |-> 0, alg |-> "none"]}

\* AuthService.refreshToken: jwt.verify(refreshToken, publicKey, RS256) comes
\* first; the session and the user are looked at only for a token it accepts
refreshToken(token) ==
    /\ IF token.alg # "RS256" \/ token.type # "refresh"
       THEN /\ lastResp' = RespBy("refresh", 401, token.userId)
            /\ UNCHANGED <<sessions, jwtIssued>>
       ELSE LET found == {i \in DOMAIN sessions :
                            /\ sessions[i].isActive
                            /\ RefreshToken(sessions[i].userId, sessions[i].token.n) = token}
            IN  IF found = {} \/ \E i \in found : ~users[sessions[i].userId].isActive
                THEN /\ lastResp' = RespBy("refresh", 401, token.userId)
                     /\ UNCHANGED <<sessions, jwtIssued>>
                ELSE \E i \in found :
                     LET accessToken == AccessToken(token.userId, Cardinality(jwtIssued) + 1) IN
                     /\ sessions' = [sessions EXCEPT ![i].token = accessToken]
                     /\ jwtIssued' = jwtIssued \cup {accessToken}
                     /\ lastResp' = RespBy("refresh", 200, token.userId)
    /\ UNCHANGED <<users, admins, jwtExpired, wallets, transactions, extCalls,
                   notifications, reqs, hooks, configured>>

\* ------------------------------------------------ POST /api/wallets/withdraw
NoNetwork == "none"
ExternalAddress == <<"0x", "external">>

\* WalletService.withdrawFunds
withdrawFunds(userId, assetId, toAddress, amount, currency, network, answer, fee) ==
    LET found == {i \in DOMAIN wallets :
                    /\ wallets[i].userId = userId /\ wallets[i].assetId = assetId
                    /\ wallets[i].currency = currency /\ wallets[i].isActive
                    /\ (network # NoNetwork => wallets[i].network = network)}
    IN  IF found = {}
        THEN /\ lastResp' = RespBy("withdraw", 500, userId)
             /\ UNCHANGED <<wallets, transactions, extCalls>>
        ELSE \E w \in found :   \* findFirst without orderBy: any matching row
             IF wallets[w].balance < amount
             THEN /\ lastResp' = RespBy("withdraw", 500, userId)
                  /\ UNCHANGED <<wallets, transactions, extCalls>>
             ELSE
             /\ extCalls' = Append(extCalls,
                    ExtCall("blockradar.withdraw", NoId, answer, NoId, wallets[w].address,
                            toAddress, amount, ""))
             /\ IF answer = "accepted"
                THEN /\ wallets' = [wallets EXCEPT ![w].balance = @ - amount]
                     /\ transactions' = Append(transactions,
                            TxRow(userId, w, NoId, "WITHDRAWAL", "PROCESSING", currency,
                                  amount, fee, toAddress))
                     /\ lastResp' = RespBy("withdraw", 200, userId)
                ELSE /\ lastResp' = RespBy("withdraw", 500, userId)
                     /\ UNCHANGED <<wallets, transactions>>

\* the route: the wallet named in the body must be the caller's
withdraw(auth, walletId, currency, network, amount, answer, fee) ==
    /\ Len(extCalls) < MaxTx
    /\ Len(transactions) < MaxTx
    /\ LET a == authenticateToken(auth) IN
       IF a.status # 200
       THEN /\ lastResp' = RespBy("withdraw", a.status, "")
            /\ UNCHANGED <<wallets, transactions, extCalls>>
       ELSE LET found == {i \in DOMAIN wallets :
                            /\ (walletId # NoId => i = walletId)
                            /\ wallets[i].userId = a.userId
                            /\ wallets[i].currency = currency /\ wallets[i].isActive
                            /\ (network # NoNetwork => wallets[i].network = network)}
            IN  IF found = {}
                THEN /\ lastResp' = RespBy("withdraw", 404, a.userId)
                     /\ UNCHANGED <<wallets, transactions, extCalls>>
                ELSE \E w \in found :
                        withdrawFunds(a.userId, wallets[w].assetId, ExternalAddress, amount,
                                      currency, network, answer, fee)
    /\ UNCHANGED <<users, admins, sessions, jwtIssued, jwtExpired, notifications, reqs,
                   hooks, configured>>

\* ------------------------------------------------------------ admin routes
UserIds == Users \cup {"nobody"}

\* POST /admin/users/:userId/freeze -> AdminUserManagementService.freezeAccount
freezeAccount(auth, userId) ==
    /\ LET a == authenticateToken(auth) IN
       IF a.status # 200
       THEN /\ lastResp' = RespBy("admin.freeze", a.status, "")
            /\ UNCHANGED <<users, sessions>>
       ELSE IF userId \notin Users \/ ~users[userId].registered
       THEN /\ lastResp' = RespBy("admin.freeze", 500, a.userId)
            /\ UNCHANGED <<users, sessions>>
       ELSE /\ users' = [users EXCEPT ![userId].isActive = FALSE]
            /\ sessions' = [i \in DOMAIN sessions |->
                               IF sessions[i].userId = userId
                               THEN [sessions[i] EXCEPT !.isActive = FALSE]
                               ELSE sessions[i]]
            /\ lastResp' = RespBy("admin.freeze", 200, a.userId)
    /\ UNCHANGED <<admins, jwtIssued, jwtExpired, wallets, transactions, extCalls,
                   notifications, reqs, hooks, configured>>

\* POST /admin/users/:userId/unfreeze -> unfreezeAccount
unfreezeAccount(auth, userId) ==
    /\ LET a == authenticateToken(auth) IN
       IF a.status # 200
       THEN /\ lastResp' = RespBy("admin.unfreeze", a.status, "")
            /\ UNCHANGED users
       ELSE IF userId \notin Users \/ ~users[userId].registered
       THEN /\ lastResp' = RespBy("admin.unfreeze", 500, a.userId)
            /\ UNCHANGED users
       ELSE /\ users' = [users EXCEPT ![userId].isActive = TRUE]
            /\ lastResp' = RespBy("admin.unfreeze", 200, a.userId)
    /\ UNCHANGED <<admins, sessions, jwtIssued, jwtExpired, wallets, transactions, extCalls,
                   notifications, reqs, hooks, configured>>

\* POST /admin/users/:userId/adjust-balance -> adjustBalance
adjustBalance(auth, userId, walletId, amount) ==
    /\ Len(transactions) < MaxTx
    /\ LET a == authenticateToken(auth) IN
       IF a.status # 200
       THEN /\ lastResp' = RespBy("admin.adjust-balance", a.status, "")
            /\ UNCHANGED <<wallets, transactions>>
       ELSE IF walletId \notin DOMAIN wallets \/ wallets[walletId].userId # userId
       THEN /\ lastResp' = RespBy("admin.adjust-balance", 500, a.userId)
            /\ UNCHANGED <<wallets, transactions>>
       ELSE LET newBalance == wallets[walletId].balance + amount
                abs == IF amount < 0 THEN 0 - amount ELSE amount IN
            IF newBalance < 0
            THEN /\ lastResp' = RespBy("admin.adjust-balance", 500, a.userId)
                 /\ UNCHANGED <<wallets, transactions>>
            ELSE /\ wallets' = [wallets EXCEPT ![walletId].balance = newBalance]
                 /\ transactions' = Append(transactions,
                        TxRow(userId,
                              IF amount < 0 THEN walletId ELSE NoId,
                              IF amount > 0 THEN walletId ELSE NoId,
                              IF amount > 0 THEN "DEPOSIT" ELSE "WITHDRAWAL",
                              "COMPLETED", wallets[walletId].currency, abs, 0, ""))
                 /\ lastResp' = RespBy("admin.adjust-balance", 200, a.userId)
    /\ UNCHANGED <<users, admins, sessions, jwtIssued, jwtExpired, extCalls, notifications,
                   reqs, hooks, configured>>

\* the response of the reverse route
ReverseResp(status, userId, transactionId) ==
    [op |-> "admin.reverse", status |-> status, user |-> userId,
     transactionId |-> transactionId]

\* reverseTransaction crediting the sender without the fee
reverseTransactionNoFee(adminId, transactionId) ==
    IF transactionId \notin DOMAIN transactions
       \/ transactions[transactionId].status # "COMPLETED"
    THEN /\ lastResp' = ReverseResp(500, adminId, transactionId)
         /\ UNCHANGED <<wallets, transactions>>
    ELSE LET transaction == transactions[transactionId]
             senderWallet == transaction.senderWalletId
             receiverWallet == transaction.receiverWalletId
             reversalTx ==
                [TxRow(transaction.userId, receiverWallet, senderWallet, transaction.type,
                       "COMPLETED", transaction.currency, transaction.amount, 0,
                       transaction.externalAddress)
                 EXCEPT !.originalTransactionId = transactionId]
             credited == IF senderWallet = NoId THEN wallets
                         ELSE [wallets EXCEPT ![senderWallet].balance =
                                  wallets[senderWallet].balance + transaction.amount]
             debited == IF receiverWallet = NoId THEN credited
                        ELSE [credited EXCEPT ![receiverWallet].balance =
                                  wallets[receiverWallet].balance - transaction.amount]
         IN  /\ transactions' = Append(transactions, reversalTx)
             /\ wallets' = debited
             /\ lastResp' = ReverseResp(200, adminId, transactionId)

\* AdminTransactionManagementService.reverseTransaction
reverseTransaction(adminId, transactionId) ==
    IF transactionId \notin DOMAIN transactions
       \/ transactions[transactionId].status # "COMPLETED"
    THEN /\ lastResp' = ReverseResp(500, adminId, transactionId)
         /\ UNCHANGED <<wallets, transactions>>
    ELSE LET transaction == transactions[transactionId]
             senderWallet == transaction.senderWalletId
             receiverWallet == transaction.receiverWalletId
             reversalTx ==
                [TxRow(transaction.userId, receiverWallet, senderWallet, transaction.type,
                       "COMPLETED", transaction.currency, transaction.amount, 0,
                       transaction.externalAddress)
                 EXCEPT !.originalTransactionId = transactionId]
             \* both updates write the balance read with the transaction
             credited == IF senderWallet = NoId THEN wallets
                         ELSE [wallets EXCEPT ![senderWallet].balance =
                                  wallets[senderWallet].balance + transaction.amount
                                      + transaction.fee]
             debited == IF receiverWallet = NoId THEN credited
                        ELSE [credited EXCEPT ![receiverWallet].balance =
                                  wallets[receiverWallet].balance - transaction.amount]
         IN  /\ transactions' = Append(transactions, reversalTx)
             /\ wallets' = debited
             /\ lastResp' = ReverseResp(200, adminId, transactionId)

\* POST /admin/transactions/:transactionId/reverse
reverseTransactionRoute(auth, transactionId) ==
    /\ Len(transactions) < MaxTx
    /\ LET a == authenticateToken(auth) IN
       IF a.status # 200
       THEN /\ lastResp' = ReverseResp(a.status, "", transactionId)
            /\ UNCHANGED <<wallets, transactions>>
       ELSE reverseTransaction(a.userId, transactionId)
    /\ UNCHANGED <<users, admins, sessions, jwtIssued, jwtExpired, extCalls, notifications,
                   reqs, hooks, configured>>

\* ------------------------------------------------------- account freezing
\* the first user is logged in, no admin is
InitFreeze ==
    /\ users = [u \in Users |-> [registered |-> TRUE, isActive |-> TRUE,
                                  firebaseToken |-> (u = "u1"),
                                  transactionPin |-> NoPin,
                                  isVerified |-> FALSE, ninVerified |-> FALSE,
                                  verifications |-> <<>>]]
    /\ admins = AdminIds
    /\ sessions = <<LoggedIn[1]>>
    /\ jwtIssued = {LoggedIn[1].token}
    /\ jwtExpired = {}
    /\ wallets = Funded
    /\ transactions = <<>>
    /\ extCalls = <<>>
    /\ notifications = <<>>
    /\ reqs = [r \in ReqIds |-> IdleReq]
    /\ hooks = <<>>
    /\ lastResp = Resp("none", 0)
    /\ configured = Networks

NextFreeze ==
    \/ \E admin \in AdminIds \cup {"u1"}, passwordOk \in BOOLEAN : adminLogin(admin, passwordOk)
    \/ \E u \in Users, passwordOk \in BOOLEAN : login(u, passwordOk)
    \/ \E token \in RefreshInputs : refreshToken(token)
    \/ \E auth \in AuthInputs, userId \in UserIds : freezeAccount(auth, userId)
    \/ \E auth \in AuthInputs, userId \in UserIds : unfreezeAccount(auth, userId)
    \/ \E auth \in AuthInputs, walletId \in {2, 8}, answer \in {"accepted", "rejected"} :
            withdraw(auth, walletId, "USDT", NoNetwork, MaxAmount, answer, 0)

SpecFreeze == InitFreeze /\ [][NextFreeze]_vars

\* ------------------------------------------------------------ the ledger
\* the first user and the admin are logged in
AdminToken == AccessToken("adm1", 2)
InitLedger ==
    /\ users = [u \in Users |-> [registered |-> TRUE, isActive |-> TRUE,
                                  firebaseToken |-> (u = "u1"),
                                  transactionPin |-> NoPin,
                                  isVerified |-> FALSE, ninVerified |-> FALSE,
                                  verifications |-> <<>>]]
    /\ admins = AdminIds
    /\ sessions = <<LoggedIn[1]>>
    /\ jwtIssued = {LoggedIn[1].token, AdminToken}
    /\ jwtExpired = {}
    /\ wallets = Funded
    /\ transactions = <<>>
    /\ extCalls = <<>>
    /\ notifications = <<>>
    /\ reqs = [r \in ReqIds |-> IdleReq]
    /\ hooks = <<>>
    /\ lastResp = Resp("none", 0)
    /\ configured = Networks

AdjustAmounts == {0 - 1, MaxAmount}

NextLedger ==
    \/ \E fee \in Fees :
            withdraw(LoggedIn[1].token, 2, "USDT", "Base", MaxAmount, "accepted", fee)
    \/ \E n \in 1..Len(transactions), status \in {"COMPLETED", "FAILED"} :
          LET body == [orderId |-> TxId(n), status |-> status] IN
          transactionStatusTracker(Hmac(WebhookSecret, body), body)
    \/ \E auth \in {NoToken, AdminToken}, userId \in Users, amount \in AdjustAmounts :
            adjustBalance(auth, userId, 2, amount)
    \/ \E auth \in {NoToken, BadToken, AdminToken}, transactionId \in 1..MaxTx :
            reverseTransactionRoute(auth, transactionId)

SpecLedger == InitLedger /\ [][NextLedger]_vars


\* ------------------------------------------------------- manual controls
\* the response of a route that names a transaction
TxResp(op, status, userId, transactionId) ==
    [op |-> op, status |-> status, user |-> userId, transactionId |-> transactionId]

\* approveTransaction without the check of the status
approveTransactionAnyStatus(adminId, transactionId) ==
    IF transactionId \notin DOMAIN transactions
    THEN /\ lastResp' = TxResp("admin.approve", 500, adminId, transactionId)
         /\ UNCHANGED transactions
    ELSE /\ transactions' = [transactions EXCEPT ![transactionId].status = "COMPLETED",
                                                  ![transactionId].completedAt = TRUE]
         /\ lastResp' = TxResp("admin.approve", 200, adminId, transactionId)

\* AdminTransactionManagementService.approveTransaction
approveTransaction(adminId, transactionId) ==
    IF transactionId \notin DOMAIN transactions
       \/ transactions[transactionId].status # "PENDING"
    THEN /\ lastResp' = TxResp("admin.approve", 500, adminId, transactionId)
         /\ UNCHANGED transactions
    ELSE /\ transactions' = [transactions EXCEPT ![transactionId].status = "COMPLETED",
                                                  ![transactionId].completedAt = TRUE]
         /\ lastResp' = TxResp("admin.approve", 200, adminId, transactionId)

\* AdminTransactionManagementService.cancelTransaction
cancelTransaction(adminId, transactionId) ==
    IF transactionId \notin DOMAIN transactions
       \/ transactions[transactionId].status = "COMPLETED"
    THEN /\ lastResp' = TxResp("admin.cancel", 500, adminId, transactionId)
         /\ UNCHANGED transactions
    ELSE /\ transactions' = [transactions EXCEPT ![transactionId].status = "CANCELLED"]
         /\ lastResp' = TxResp("admin.cancel", 200, adminId, transactionId)

\* retryTransaction writing a retry count of one whatever it was
retryTransactionCountOne(adminId, transactionId) ==
    IF transactionId \notin DOMAIN transactions
       \/ transactions[transactionId].status # "FAILED"
    THEN /\ lastResp' = TxResp("admin.retry", 500, adminId, transactionId)
         /\ UNCHANGED transactions
    ELSE /\ transactions' = [transactions EXCEPT ![transactionId].status = "PENDING",
                                                  ![transactionId].retryCount = 1]
         /\ lastResp' = TxResp("admin.retry", 200, adminId, transactionId)

\* AdminTransactionManagementService.retryTransaction
retryTransaction(adminId, transactionId) ==
    IF transactionId \notin DOMAIN transactions
       \/ transactions[transactionId].status # "FAILED"
    THEN /\ lastResp' = TxResp("admin.retry", 500, adminId, transactionId)
         /\ UNCHANGED transactions
    ELSE /\ transactions' = [transactions EXCEPT ![transactionId].status = "PENDING",
                                                  ![transactionId].retryCount = @ + 1]
         /\ lastResp' = TxResp("admin.retry", 200, adminId, transactionId)

\* POST /admin/transactions/:transactionId/approve
approveTransactionRoute(auth, transactionId) ==
    /\ LET a == authenticateToken(auth) IN
       IF a.status # 200
       THEN /\ lastResp' = TxResp("admin.approve", a.status, "", transactionId)
            /\ UNCHANGED transactions
       ELSE approveTransaction(a.userId, transactionId)
    /\ UNCHANGED <<users, admins, sessions, jwtIssued, jwtExpired, wallets, extCalls,
                   notifications, reqs, hooks, configured>>

\* POST /admin/transactions/:transactionId/cancel
cancelTransactionRoute(auth, transactionId) ==
    /\ LET a == authenticateToken(auth) IN
       IF a.status # 200
       THEN /\ lastResp' = TxResp("admin.cancel", a.status, "", transactionId)
            /\ UNCHANGED transactions
       ELSE cancelTransaction(a.userId, transactionId)
    /\ UNCHANGED <<users, admins, sessions, jwtIssued, jwtExpired, wallets, extCalls,
                   notifications, reqs, hooks, configured>>

\* POST /admin/transactions/:transactionId/retry
retryTransactionRoute(auth, transactionId) ==
    /\ LET a == authenticateToken(auth) IN
       IF a.status # 200
       THEN /\ lastResp' = TxResp("admin.retry", a.status, "", transactionId)
            /\ UNCHANGED transactions
       ELSE retryTransaction(a.userId, transactionId)
    /\ UNCHANGED <<users, admins, sessions, jwtIssued, jwtExpired, wallets, extCalls,
                   notifications, reqs, hooks, configured>>

\* withdrawals of the first user, their settlement, and the admin's controls
NextControls ==
    \/ /\ Len(transactions) < MaxHooks
       /\ withdraw(LoggedIn[1].token, 2, "USDT", "Base", 1, "accepted", 0)
    \/ \E n \in 1..Len(transactions) :
          LET body == [orderId |-> TxId(n), status |-> "FAILED"] IN
          transactionStatusTracker(Hmac(WebhookSecret, body), body)
    \/ \E auth \in {NoToken, AdminToken}, transactionId \in 1..MaxTx :
            approveTransactionRoute(auth, transactionId)
    \/ \E auth \in {NoToken, AdminToken}, transactionId \in 1..MaxTx :
            cancelTransactionRoute(auth, transactionId)
    \/ \E auth \in {NoToken, AdminToken}, transactionId \in 1..MaxTx :
            retryTransactionRoute(auth, transactionId)

SpecControls == InitLedger /\ [][NextControls]_vars

\* --------------------------------------- balance adjustment, step by step
\* adjustBalance up to the end of "await prisma.wallet.findFirst": the wallet
\* row is read and the new balance is checked against what was read
adjustBalanceRead(r, auth, userId, walletId, amount) ==
    /\ reqs[r].pc = "idle"
    /\ r > 1 => reqs[r - 1].pc # "idle"
    /\ LET a == authenticateToken(auth) IN
       IF a.status # 200
       THEN reqs' = [reqs EXCEPT ![r] = [IdleReq EXCEPT !.pc = "done", !.http = a.status]]
       ELSE IF walletId \notin DOMAIN wallets \/ wallets[walletId].userId # userId
       THEN reqs' = [reqs EXCEPT ![r] = [IdleReq EXCEPT !.pc = "done", !.userId = userId,
                                             !.walletId = walletId, !.amount = amount,
                                             !.http = 500]]
       ELSE IF wallets[walletId].balance + amount < 0
       THEN reqs' = [reqs EXCEPT ![r] = [IdleReq EXCEPT !.pc = "done", !.userId = userId,
                                             !.walletId = walletId, !.amount = amount,
                                             !.http = 500]]
       ELSE reqs' = [reqs EXCEPT ![r] = [IdleReq EXCEPT !.pc = "adjust.read",
                                             !.userId = userId, !.walletId = walletId,
                                             !.amount = amount,
                                             !.balance = wallets[walletId].balance]]
    /\ UNCHANGED <<users, admins, sessions, jwtIssued, jwtExpired, wallets, transactions,
                   extCalls, notifications, hooks, lastResp, configured>>

\* the rest of adjustBalance: the new balance computed from the row that was
\* read is written, and the transaction row is created
adjustBalanceWrite(r) ==
    /\ reqs[r].pc = "adjust.read"
    /\ LET walletId == reqs[r].walletId
           amount == reqs[r].amount
           newBalance == reqs[r].balance + amount
           abs == IF amount < 0 THEN 0 - amount ELSE amount
       IN  /\ wallets' = [wallets EXCEPT ![walletId].balance = newBalance]
           /\ transactions' = Append(transactions,
                  TxRow(reqs[r].userId,
                        IF amount < 0 THEN walletId ELSE NoId,
                        IF amount > 0 THEN walletId ELSE NoId,
                        IF amount > 0 THEN "DEPOSIT" ELSE "WITHDRAWAL",
                        "COMPLETED", wallets[walletId].currency, abs, 0, ""))
           /\ reqs' = [reqs EXCEPT ![r].pc = "done", ![r].http = 200,
                                   ![r].txId = Len(transactions) + 1]
    /\ UNCHANGED <<users, admins, sessions, jwtIssued, jwtExpired, extCalls, notifications,
                   hooks, lastResp, configured>>

\* the response of the re-credit route
RecreditResp(status, adminId, walletId, amount) ==
    [op |-> "admin.recredit", status |-> status, user |-> adminId,
     walletId |-> walletId, amount |-> amount]

\* POST /admin/support/recredit -> AdminSupportService.recreditUser
recreditUser(auth, userId, walletId, amount) ==
    /\ Len(transactions) < MaxTx
    /\ LET a == authenticateToken(auth) IN
       IF a.status # 200
       THEN /\ lastResp' = RecreditResp(a.status, "", walletId, amount)
            /\ UNCHANGED <<wallets, transactions>>
       ELSE IF walletId \notin DOMAIN wallets \/ wallets[walletId].userId # userId
       THEN /\ lastResp' = RecreditResp(500, a.userId, walletId, amount)
            /\ UNCHANGED <<wallets, transactions>>
       ELSE LET newBalance == wallets[walletId].balance + amount IN
            /\ wallets' = [wallets EXCEPT ![walletId].balance = newBalance]
            /\ transactions' = Append(transactions,
                   [TxRow(userId, NoId, walletId, "DEPOSIT", "COMPLETED",
                          wallets[walletId].currency, amount, 0, "")
                    EXCEPT !.isRecredit = TRUE])
            /\ lastResp' = RecreditResp(200, a.userId, walletId, amount)
    /\ UNCHANGED <<users, admins, sessions, jwtIssued, jwtExpired, extCalls, notifications,
                   reqs, hooks, configured>>

\* two adjustments in flight, the first user's withdrawals, and re-credits
NextAdjust ==
    \/ \E r \in ReqIds, auth \in {NoToken, AdminToken}, userId \in Users,
          amount \in AdjustAmounts : adjustBalanceRead(r, auth, userId, 2, amount)
    \/ \E r \in ReqIds : adjustBalanceWrite(r)
    \/ \E answer \in {"accepted", "rejected"} :
            withdraw(LoggedIn[1].token, 2, "USDT", "Base", 1, answer, 0)
    \/ \E auth \in {NoToken, AdminToken}, userId \in Users, amount \in AdjustAmounts :
            recreditUser(auth, userId, 2, amount)

SpecAdjust == InitLedger /\ [][NextAdjust]_vars

\* --------------------------------------------------------- transaction PIN
\* PINs are strings, modelled as sequences of characters
Digits == {"0", "1", "2", "3", "4", "5", "6", "7", "8", "9"}
Pins == {<<"1", "2", "3", "4">>, <<"4", "3", "2", "1">>, <<"1", "2", "3">>,
         <<"1", "2", "3", "a">>}
Salts == {"salt1", "salt2"}

\* /^\d{4,6}$/
PinFormatOk(pin) == Len(pin) \in 4..6 /\ \A i \in DOMAIN pin : pin[i] \in Digits

\* EncryptionService.hashPassword: salt + ':' + PBKDF2(password, salt)
PBKDF2(password, salt) == <<"pbkdf2", password, salt>>
hashPassword(password, salt) == <<salt, PBKDF2(password, salt)>>

\* EncryptionService.verifyPassword
verifyPassword(password, hashedPassword) ==
    /\ Len(hashedPassword) = 2
    /\ PBKDF2(password, hashedPassword[1]) = hashedPassword[2]

\* the response of a PIN route
PinResp(op, status, userId, message) ==
    [op |-> op, status |-> status, user |-> userId, message |-> message]

\* POST /api/auth/setup-transaction-pin -> AuthService.setupTransactionPin
setupTransactionPin(auth, pin, salt) ==
    /\ LET a == authenticateToken(auth) IN
       IF a.status # 200
       THEN /\ lastResp' = PinResp("setup-transaction-pin", a.status, "", "")
            /\ UNCHANGED users
       ELSE IF ~PinFormatOk(pin)
       THEN /\ lastResp' = PinResp("setup-transaction-pin", 400, a.userId,
                                   "PIN must be 4-6 digits")
            /\ UNCHANGED users
       ELSE IF a.userId \notin Users \/ ~users[a.userId].registered
       THEN /\ lastResp' = PinResp("setup-transaction-pin", 400, a.userId, "User not found")
            /\ UNCHANGED users
       ELSE IF users[a.userId].transactionPin # NoPin
       THEN /\ lastResp' = PinResp("setup-transaction-pin", 400, a.userId,
                                   "Transaction PIN already exists. Use update PIN instead.")
            /\ UNCHANGED users
       ELSE /\ users' = [users EXCEPT ![a.userId].transactionPin = hashPassword(pin, salt)]
            /\ lastResp' = PinResp("setup-transaction-pin", 200, a.userId,
                                   "Transaction PIN setup successfully")
    /\ UNCHANGED <<admins, sessions, jwtIssued, jwtExpired, wallets, transactions, extCalls,
                   notifications, reqs, hooks, configured>>

\* POST /api/auth/verify-transaction-pin -> AuthService.verifyTransactionPin
verifyTransactionPin(auth, pin) ==
    /\ LET a == authenticateToken(auth) IN
       IF a.status # 200
       THEN lastResp' = PinResp("verify-transaction-pin", a.status, "", "")
       ELSE IF ~PinFormatOk(pin)
       THEN lastResp' = PinResp("verify-transaction-pin", 400, a.userId,
                                "PIN must be 4-6 digits")
       ELSE IF a.userId \notin Users \/ ~users[a.userId].registered
       THEN lastResp' = PinResp("verify-transaction-pin", 400, a.userId, "User not found")
       ELSE IF users[a.userId].transactionPin = NoPin
       THEN lastResp' = PinResp("verify-transaction-pin", 400, a.userId,
                                "Transaction PIN not set. Please setup your PIN first.")
       ELSE IF ~verifyPassword(pin, users[a.userId].transactionPin)
       THEN lastResp' = PinResp("verify-transaction-pin", 400, a.userId,
                                "Invalid transaction PIN")
       ELSE lastResp' = PinResp("verify-transaction-pin", 200, a.userId,
                                "Transaction PIN verified successfully")
    /\ UNCHANGED <<users, admins, sessions, jwtIssued, jwtExpired, wallets, transactions,
                   extCalls, notifications, reqs, hooks, configured>>

\* PUT /api/auth/update-transaction-pin -> AuthService.updateTransactionPin
updateTransactionPin(auth, currentPin, newPin, salt) ==
    /\ LET a == authenticateToken(auth) IN
       IF a.status # 200
       THEN /\ lastResp' = PinResp("update-transaction-pin", a.status, "", "")
            /\ UNCHANGED users
       ELSE IF ~PinFormatOk(currentPin) \/ ~PinFormatOk(newPin)
       THEN /\ lastResp' = PinResp("update-transaction-pin", 400, a.userId,
                                   "PIN must be 4-6 digits")
            /\ UNCHANGED users
       ELSE IF a.userId \notin Users \/ ~users[a.userId].registered
       THEN /\ lastResp' = PinResp("update-transaction-pin", 400, a.userId, "User not found")
            /\ UNCHANGED users
       ELSE IF users[a.userId].transactionPin = NoPin
       THEN /\ lastResp' = PinResp("update-transaction-pin", 400, a.userId,
                                   "Transaction PIN not set. Please setup your PIN first.")
            /\ UNCHANGED users
       ELSE IF ~verifyPassword(currentPin, users[a.userId].transactionPin)
       THEN /\ lastResp' = PinResp("update-transaction-pin", 400, a.userId,
                                   "Current PIN is incorrect")
            /\ UNCHANGED users
       ELSE /\ users' = [users EXCEPT ![a.userId].transactionPin = hashPassword(newPin, salt)]
            /\ lastResp' = PinResp("update-transaction-pin", 200, a.userId,
                                   "Transaction PIN updated successfully")
    /\ UNCHANGED <<admins, sessions, jwtIssued, jwtExpired, wallets, transactions, extCalls,
                   notifications, reqs, hooks, configured>>

\* GET /api/auth/pin-status -> AuthService.checkPinStatus; the message field
\* carries data.hasPinSetup
checkPinStatus(auth) ==
    /\ LET a == authenticateToken(auth) IN
       IF a.status # 200
       THEN lastResp' = PinResp("pin-status", a.status, "", "")
       ELSE IF a.userId \notin Users \/ ~users[a.userId].registered
       THEN lastResp' = PinResp("pin-status", 500, a.userId, "Failed to check PIN status")
       ELSE lastResp' = PinResp("pin-status", 200, a.userId,
                                users[a.userId].transactionPin # NoPin)
    /\ UNCHANGED <<users, admins, sessions, jwtIssued, jwtExpired, wallets, transactions,
                   extCalls, notifications, reqs, hooks, configured>>

\* a reset that leaves the PIN in place
resetUserPinKeepsPin(auth, userId) ==
    /\ LET a == authenticateToken(auth) IN
       IF a.status # 200
       THEN lastResp' = PinResp("admin.reset-pin", a.status, "", userId)
       ELSE IF userId \notin Users \/ ~users[userId].registered
       THEN lastResp' = PinResp("admin.reset-pin", 500, a.userId, userId)
       ELSE lastResp' = PinResp("admin.reset-pin", 200, a.userId, userId)
    /\ UNCHANGED <<users, admins, sessions, jwtIssued, jwtExpired, wallets, transactions,
                   extCalls, notifications, reqs, hooks, configured>>

\* POST /admin/users/:userId/reset-pin -> resetUserPin; the message field
\* carries the userId of the path
resetUserPin(auth, userId) ==
    /\ LET a == authenticateToken(auth) IN
       IF a.status # 200
       THEN /\ lastResp' = PinResp("admin.reset-pin", a.status, "", userId)
            /\ UNCHANGED users
       ELSE IF userId \notin Users \/ ~users[userId].registered
       THEN /\ lastResp' = PinResp("admin.reset-pin", 500, a.userId, userId)
            /\ UNCHANGED users
       ELSE /\ users' = [users EXCEPT ![userId].transactionPin = NoPin]
            /\ lastResp' = PinResp("admin.reset-pin", 200, a.userId, userId)
    /\ UNCHANGED <<admins, sessions, jwtIssued, jwtExpired, wallets, transactions, extCalls,
                   notifications, reqs, hooks, configured>>

\* the first user has set a PIN; both users and the admin are logged in
InitPin ==
    /\ users = [u \in Users |-> [registered |-> TRUE, isActive |-> TRUE,
                                  firebaseToken |-> (u = "u1"),
                                  transactionPin |->
                                      IF u = "u1" THEN hashPassword(<<"1", "2", "3", "4">>, "salt1")
                                      ELSE NoPin,
                                  isVerified |-> FALSE, ninVerified |-> FALSE,
                                  verifications |-> <<>>]]
    /\ admins = AdminIds
    /\ sessions = LoggedIn
    /\ jwtIssued = {LoggedIn[1].token, LoggedIn[2].token, AccessToken("adm1", 3)}
    /\ jwtExpired = {}
    /\ wallets = Funded
    /\ transactions = <<>>
    /\ extCalls = <<>>
    /\ notifications = <<>>
    /\ reqs = [r \in ReqIds |-> IdleReq]
    /\ hooks = <<>>
    /\ lastResp = Resp("none", 0)
    /\ configured = Networks

NextPin ==
    \/ \E auth \in AuthInputs, pin \in Pins, salt \in Salts : setupTransactionPin(auth, pin, salt)
    \/ \E auth \in AuthInputs, pin \in Pins : verifyTransactionPin(auth, pin)
    \/ \E auth \in AuthInputs, currentPin \in Pins, newPin \in Pins, salt \in Salts :
            updateTransactionPin(auth, currentPin, newPin, salt)
    \/ \E auth \in AuthInputs : checkPinStatus(auth)
    \/ \E auth \in AuthInputs, userId \in UserIds : resetUserPin(auth, userId)

SpecPin == InitPin /\ [][NextPin]_vars

\* ------------------------------------------ POST /api/ramps/verify-account
MaxVerifications == 1

AccountNumbers == {"0123456789", "9876543210"}

\* account names after normalizeAccountName: lower-case words
AccountNames == {<<"ada", "obi">>, <<"ada", "obi", "eze">>, <<"bola", "ade">>}

\* String.includes on normalized names: a run of whole words
Includes(name, part) ==
    \E i \in 0..(Len(name) - Len(part)) : SubSeq(name, i + 1, i + Len(part)) = part

\* offrampServices.fuzzyNameMatch: at least 70% of the words of each name
\* appear in the other
fuzzyNameMatch(name1, name2) ==
    LET matches1 == {i \in DOMAIN name1 : \E j \in DOMAIN name2 : name2[j] = name1[i]}
        matches2 == {j \in DOMAIN name2 : \E i \in DOMAIN name1 : name1[i] = name2[j]}
    IN  /\ name1 # <<>> /\ name2 # <<>>
        /\ Cardinality(matches1) * 10 >= 7 * Len(name1)
        /\ Cardinality(matches2) * 10 >= 7 * Len(name2)

namesMatch(provided, paystack) ==
    \/ provided = paystack
    \/ Includes(provided, paystack)
    \/ Includes(paystack, provided)
    \/ fuzzyNameMatch(provided, paystack)

\* the answers of Paystack: GET /bank and GET /bank/resolve
BanksAnswers == {[status |-> FALSE, data |-> {}], [status |-> TRUE, data |-> {"Zenith"}],
                 [status |-> TRUE, data |-> {"GTB", "Zenith"}]}
ResolveAnswers == {[status |-> FALSE, account_name |-> <<>>]}
                  \cup {[status |-> TRUE, account_name |-> n] : n \in AccountNames}

\* a call made while verifying accountNumber for a client that gave accountName
VerifyCall(api, answer, accountNumber, accountName) ==
    ExtCall(api, NoId, answer, NoId, "", "", 0, "")
        @@ [accountNumber |-> accountNumber, accountName |-> accountName]

VerifyResp(status, success, accountNumber) ==
    [op |-> "ramps.verify-account", status |-> status, success |-> success,
     accountNumber |-> accountNumber]

Verifications == SelectSeq(extCalls, LAMBDA c : c.api = "paycrest.verify-account")

\* the route and offrampServices.verifyAccountNumber
verifyAccountNumber(auth, accountNumber, bankName, accountName, paycrestAnswer, banks, resolved) ==
    /\ Len(Verifications) < MaxVerifications
    /\ LET a == authenticateToken(auth)
           first == VerifyCall("paycrest.verify-account", paycrestAnswer, accountNumber,
                               accountName)
           second == VerifyCall("paystack.bank", IF banks.status THEN "success" ELSE "error",
                                accountNumber, accountName)
           third == VerifyCall("paystack.resolve",
                               IF resolved.status THEN "success" ELSE "error",
                               accountNumber, resolved.account_name)
       IN
       IF a.status # 200
       THEN /\ lastResp' = VerifyResp(a.status, FALSE, accountNumber)
            /\ UNCHANGED extCalls
       ELSE IF accountNumber = "" \/ bankName = "" \/ accountName = <<>>
       THEN /\ lastResp' = VerifyResp(400, FALSE, accountNumber)
            /\ UNCHANGED extCalls
       ELSE IF paycrestAnswer # "success"
       THEN /\ extCalls' = Append(extCalls, first)
            /\ lastResp' = VerifyResp(500, FALSE, accountNumber)
       ELSE IF ~banks.status
       THEN /\ extCalls' = extCalls \o <<first, second>>
            /\ lastResp' = VerifyResp(200, TRUE, accountNumber)
       ELSE IF bankName \notin banks.data
       THEN /\ extCalls' = extCalls \o <<first, second>>
            /\ lastResp' = VerifyResp(200, TRUE, accountNumber)
       ELSE IF ~resolved.status
       THEN /\ extCalls' = extCalls \o <<first, second, third>>
            /\ lastResp' = VerifyResp(200, TRUE, accountNumber)
       ELSE /\ extCalls' = extCalls \o <<first, second, third>>
            /\ lastResp' = VerifyResp(200, namesMatch(accountName, resolved.account_name),
                                      accountNumber)
    /\ UNCHANGED <<users, admins, sessions, jwtIssued, jwtExpired, wallets, transactions,
                   notifications, reqs, hooks, configured>>

\* what the client was told by the verification whose first call is extCalls[j]
VerificationSucceeded(j) ==
    /\ extCalls[j].api = "paycrest.verify-account"
    /\ extCalls[j].answer = "success"
    /\ ~ /\ j + 2 <= Len(extCalls)
         /\ extCalls[j + 1].api = "paystack.bank"
         /\ extCalls[j + 2].api = "paystack.resolve"
         /\ extCalls[j + 2].answer = "success"
         /\ ~namesMatch(extCalls[j].accountName, extCalls[j + 2].accountName)

\* verifications and one order request, in any order
NextVerify ==
    \/ \E auth \in {NoToken, LoggedIn[1].token}, accountNumber \in AccountNumbers,
          accountName \in {<<>>, Complete.accountName}, paycrestAnswer \in {"success", "error"},
          banks \in BanksAnswers, resolved \in ResolveAnswers :
            verifyAccountNumber(auth, accountNumber, "GTB", accountName, paycrestAnswer,
                                banks, resolved)
    \/ \E auth \in {NoToken, LoggedIn[1].token}, accountNumber \in AccountNumbers,
          recipient \in Recipients, answer \in {"success", "error"} :
            OrdersInitializeOrder(1, auth, "USDT", 1, "ref1",
                                  [recipient EXCEPT !.accountIdentifier = accountNumber],
                                  answer)
    \/ \E answer \in {"accepted", "rejected"} : OrdersTransferAsset(1, answer, 0)

SpecVerify == InitOfframp /\ [][NextVerify]_vars

\* ------------------------------------------------------------ KYC review
VerificationType   == {"NIN", "BVN", "PHONE", "EMAIL", "IDENTITY_DOCUMENT"}
VerificationStatus == {"PENDING", "IN_REVIEW", "APPROVED", "REJECTED", "EXPIRED"}
NoDate == 0
Dates  == 1..2
VerificationIds == 1..4

Verification(id, type) ==
    [id |-> id, type |-> type, status |-> "PENDING", reviewedAt |-> NoDate,
     verificationData |-> ""]

\* where the row with this id is: the owner and the position among the
\* owner's rows
FindVerification(verificationId) ==
    {<<u, i>> \in Users \X VerificationIds :
        /\ i \in DOMAIN users[u].verifications
        /\ users[u].verifications[i].id = verificationId}

KycResp(op, status, verificationId) ==
    [op |-> op, status |-> status, verificationId |-> verificationId]

\* an approval that marks the user verified whatever the type
approveKYCMarksVerified(auth, verificationId, now, userUpdate) ==
    /\ LET a == authenticateToken(auth)
           found == FindVerification(verificationId)
       IN
       IF a.status # 200
       THEN /\ lastResp' = KycResp("admin.kyc.approve", a.status, verificationId)
            /\ UNCHANGED users
       ELSE IF found = {}
       THEN /\ lastResp' = KycResp("admin.kyc.approve", 500, verificationId)
            /\ UNCHANGED users
       ELSE \E f \in found :
            LET u == f[1]
                i == f[2]
            IN  /\ users' = [users EXCEPT ![u].verifications[i].status = "APPROVED",
                                          ![u].verifications[i].reviewedAt = now,
                                          ![u].isVerified = TRUE]
                /\ lastResp' = KycResp("admin.kyc.approve", 200, verificationId)
    /\ UNCHANGED <<admins, sessions, jwtIssued, jwtExpired, wallets, transactions, extCalls,
                   notifications, reqs, hooks, configured>>

\* POST /admin/kyc/:verificationId/approve -> approveKYC; userUpdate is what
\* the database does with the second write, the one to the users table
approveKYC(auth, verificationId, now, userUpdate) ==
    /\ LET a == authenticateToken(auth)
           found == FindVerification(verificationId)
       IN
       IF a.status # 200
       THEN /\ lastResp' = KycResp("admin.kyc.approve", a.status, verificationId)
            /\ UNCHANGED users
       ELSE IF found = {}
       THEN /\ lastResp' = KycResp("admin.kyc.approve", 500, verificationId)
            /\ UNCHANGED users
       ELSE \E f \in found :
            LET u == f[1]
                i == f[2]
                type == users[u].verifications[i].type
                approved == [users EXCEPT ![u].verifications[i].status = "APPROVED",
                                          ![u].verifications[i].reviewedAt = now]
            IN  IF type \notin {"NIN", "EMAIL"}
                THEN /\ users' = approved
                     /\ lastResp' = KycResp("admin.kyc.approve", 200, verificationId)
                ELSE IF userUpdate # "ok"
                THEN /\ users' = approved
                     /\ lastResp' = KycResp("admin.kyc.approve", 500, verificationId)
                ELSE /\ users' = [approved EXCEPT
                                    ![u].ninVerified = IF type = "NIN" THEN TRUE ELSE @,
                                    ![u].isVerified = IF type = "EMAIL" THEN TRUE ELSE @]
                     /\ lastResp' = KycResp("admin.kyc.approve", 200, verificationId)
    /\ UNCHANGED <<admins, sessions, jwtIssued, jwtExpired, wallets, transactions, extCalls,
                   notifications, reqs, hooks, configured>>

\* POST /admin/kyc/:verificationId/reject -> rejectKYC
rejectKYC(auth, verificationId, reason, now) ==
    /\ LET a == authenticateToken(auth)
           found == FindVerification(verificationId)
       IN
       IF a.status # 200
       THEN /\ lastResp' = KycResp("admin.kyc.reject", a.status, verificationId)
            /\ UNCHANGED users
       ELSE IF found = {}
       THEN /\ lastResp' = KycResp("admin.kyc.reject", 500, verificationId)
            /\ UNCHANGED users
       ELSE \E f \in found :
            /\ users' = [users EXCEPT ![f[1]].verifications[f[2]].status = "REJECTED",
                                      ![f[1]].verifications[f[2]].reviewedAt = now,
                                      ![f[1]].verifications[f[2]].verificationData = reason]
            /\ lastResp' = KycResp("admin.kyc.reject", 200, verificationId)
    /\ UNCHANGED <<admins, sessions, jwtIssued, jwtExpired, wallets, transactions, extCalls,
                   notifications, reqs, hooks, configured>>

\* both users have submitted verifications; nobody is verified yet
InitKyc ==
    /\ users = [u \in Users |->
                 [registered |-> TRUE, isActive |-> TRUE, firebaseToken |-> FALSE,
                  transactionPin |-> NoPin, isVerified |-> FALSE, ninVerified |-> FALSE,
                  verifications |->
                      IF u = "u1"
                      THEN <<Verification(1, "NIN"), Verification(2, "EMAIL")>>
                      ELSE <<Verification(3, "PHONE")>>]]
    /\ admins = AdminIds
    /\ sessions = LoggedIn
    /\ jwtIssued = {LoggedIn[1].token, LoggedIn[2].token, AccessToken("adm1", 3)}
    /\ jwtExpired = {}
    /\ wallets = Funded
    /\ transactions = <<>>
    /\ extCalls = <<>>
    /\ notifications = <<>>
    /\ reqs = [r \in ReqIds |-> IdleReq]
    /\ hooks = <<>>
    /\ lastResp = Resp("none", 0)
    /\ configured = Networks

NextKyc ==
    \/ \E auth \in {NoToken, AccessToken("adm1", 3)}, verificationId \in VerificationIds,
          now \in Dates, userUpdate \in {"ok", "error"} :
            approveKYC(auth, verificationId, now, userUpdate)
    \/ \E auth \in {NoToken, AccessToken("adm1", 3)}, verificationId \in VerificationIds,
          now \in Dates :
            rejectKYC(auth, verificationId, "Document not clear", now)

SpecKyc == InitKyc /\ [][NextKyc]_vars

\* ---------------------------------------------------------- risk monitoring
MaxFailed == 11
MaxRecent == 11
FailedCounts  == {0, 5, 6, 9, 10, MaxFailed}
SessionCounts == {0, 10, MaxRecent}
UserOrders == {<<"u1", "u2">>, <<"u2", "u1">>}

\* rows of the two tables with their age in days
Aged(row, ageDays) == row @@ [ageDays |-> ageDays]
AgeDays(row) == IF "ageDays" \in DOMAIN row THEN row.ageDays ELSE 0

\* failed withdrawals of the last week, an older one, and a completed one
RiskTransactions(userId, failed) ==
    [i \in 1..failed |->
        Aged(TxRow(userId, NoId, NoId, "WITHDRAWAL", "FAILED", "USDT", 1, 0, ""), 0)]
    \o <<Aged(TxRow(userId, NoId, NoId, "WITHDRAWAL", "FAILED", "USDT", 1, 0, ""), 8),
         Aged(TxRow(userId, NoId, NoId, "WITHDRAWAL", "COMPLETED", "USDT", 1, 0, ""), 0)>>

\* sessions of the last day and an older one
RiskSessions(userId, recent) ==
    [i \in 1..recent |->
        Aged([userId |-> userId, token |-> AccessToken(userId, i), isActive |-> FALSE], 0)]
    \o <<Aged([userId |-> userId, token |-> AccessToken(userId, recent + 1),
               isActive |-> FALSE], 2)>>

Min(a, b) == IF a < b THEN a ELSE b

\* a score without the cap
calculateRiskScoreUncapped(failedTxs, recentSessions) ==
    failedTxs * 10 + (IF recentSessions > 10 THEN 20 ELSE 0)

\* AdminKYCComplianceService.calculateRiskScore
calculateRiskScore(failedTxs, recentSessions) ==
    Min(failedTxs * 10 + (IF recentSessions > 10 THEN 20 ELSE 0), 100)

\* Array.prototype.sort((a, b) => b.riskScore - a.riskScore): stable,
\* highest score first
InsertByRiskScore(e, sorted) ==
    LET k == Cardinality({i \in DOMAIN sorted : sorted[i].riskScore >= e.riskScore})
    IN  SubSeq(sorted, 1, k) \o <<e>> \o SubSeq(sorted, k + 1, Len(sorted))

RECURSIVE SortByRiskScore(_)
SortByRiskScore(list) ==
    IF list = <<>> THEN <<>>
    ELSE InsertByRiskScore(list[Len(list)], SortByRiskScore(SubSeq(list, 1, Len(list) - 1)))

\* GET /admin/compliance/high-risk-users -> getHighRiskUsers; order is the
\* order in which the database returns the groups
getHighRiskUsers(auth, order) ==
    /\ LET a == authenticateToken(auth)
           failedCount(u) == Len(SelectSeq(transactions, LAMBDA t :
                                t.userId = u /\ t.status = "FAILED" /\ AgeDays(t) <= 7))
           usersWithFailedTxs == SelectSeq(order, LAMBDA u : failedCount(u) > 5)
           highRiskUsers ==
               [k \in DOMAIN usersWithFailedTxs |->
                   LET u == usersWithFailedTxs[k]
                       recentSessions == Len(SelectSeq(sessions, LAMBDA s :
                                            s.userId = u /\ AgeDays(s) < 1))
                   IN  [user |-> u, failedTransactions |-> failedCount(u),
                        recentSessions |-> recentSessions,
                        riskScore |-> calculateRiskScore(failedCount(u), recentSessions)]]
       IN
       IF a.status # 200
       THEN lastResp' = [op |-> "admin.high-risk-users", status |-> a.status, data |-> <<>>]
       ELSE lastResp' = [op |-> "admin.high-risk-users", status |-> 200,
                         data |-> SortByRiskScore(highRiskUsers)]
    /\ UNCHANGED <<users, admins, sessions, jwtIssued, jwtExpired, wallets, transactions,
                   extCalls, notifications, reqs, hooks, configured>>

\* each user has some number of failed withdrawals and of recent sessions
InitRisk ==
    \E failed \in [Users -> FailedCounts], recent \in [Users -> SessionCounts] :
        /\ users = [u \in Users |-> [registered |-> TRUE, isActive |-> TRUE,
                                      firebaseToken |-> FALSE,
                                      transactionPin |-> NoPin,
                                      isVerified |-> FALSE, ninVerified |-> FALSE,
                                      verifications |-> <<>>]]
        /\ admins = AdminIds
        /\ sessions = RiskSessions("u1", recent["u1"]) \o RiskSessions("u2", recent["u2"])
        /\ jwtIssued = {AdminToken}
        /\ jwtExpired = {}
        /\ wallets = Funded
        /\ transactions = RiskTransactions("u1", failed["u1"])
                            \o RiskTransactions("u2", failed["u2"])
        /\ extCalls = <<>>
        /\ notifications = <<>>
        /\ reqs = [r \in ReqIds |-> IdleReq]
        /\ hooks = <<>>
        /\ lastResp = Resp("none", 0)
        /\ configured = Networks

NextRisk ==
    \E auth \in {NoToken, AdminToken}, order \in UserOrders : getHighRiskUsers(auth, order)

SpecRisk == InitRisk /\ [][NextRisk]_vars

\* ------------------------------------------------------------ GET /admin/profile
\* the exp claim of a token passes: jwt.verify throws from then on
tokenExpires(token) ==
    /\ token \in jwtIssued \ jwtExpired
    /\ jwtExpired' = jwtExpired \cup {token}
    /\ UNCHANGED <<users, admins, sessions, jwtIssued, wallets, transactions, extCalls,
                   notifications, reqs, hooks, lastResp, configured>>

\* GET /admin/profile -> AdminAuthService.getAdmin: the admin row, or null
\* for an id that is no admin's; 404 when the lookup throws
getAdminProfile(auth, db) ==
    /\ LET a == authenticateToken(auth) IN
       IF a.status # 200
       THEN lastResp' = RespBy("admin.profile", a.status, "")
       ELSE IF db # "up"
       THEN lastResp' = RespBy("admin.profile", 404, a.userId)
       ELSE lastResp' = RespBy("admin.profile", 200,
                               IF a.userId \in admins THEN a.userId ELSE "null")
    /\ UNCHANGED <<users, admins, sessions, jwtIssued, jwtExpired, wallets, transactions,
                   extCalls, notifications, reqs, hooks, configured>>

NextAdminAuth ==
    \/ \E token \in jwtIssued : tokenExpires(token)
    \/ \E auth \in AuthInputs, db \in {"up", "down"} : getAdminProfile(auth, db)
    \/ \E auth \in AuthInputs, userId \in UserIds : freezeAccount(auth, userId)
    \/ \E auth \in AuthInputs, userId \in UserIds : unfreezeAccount(auth, userId)

SpecAdminAuth == InitLedger /\ [][NextAdminAuth]_vars

\* ------------------------------------------------ withdrawal, step by step
\* what the database does with the two writes that follow the provider call
WriteOutcomes == {"up", "wallet.update fails", "transaction.create fails"}

\* the call to BlockRadar with the asset it names
WithdrawCall(r, answer, w, toAddress, amount) ==
    ExtCall("blockradar.withdraw", r, answer, NoId, wallets[w].address, toAddress, amount, "")
        @@ [walletId |-> w]

\* POST /api/wallets/withdraw up to the balance check of withdrawFunds
withdrawFundsCheck(r, auth, walletId, currency, amount) ==
    /\ reqs[r].pc = "idle"
    /\ r > 1 => reqs[r - 1].pc # "idle"
    /\ LET a == authenticateToken(auth)
           found == {i \in DOMAIN wallets :
                        /\ i = walletId /\ wallets[i].userId = a.userId
                        /\ wallets[i].currency = currency /\ wallets[i].isActive}
       IN
       IF a.status # 200
       THEN reqs' = [reqs EXCEPT ![r] = [IdleReq EXCEPT !.pc = "done", !.http = a.status]]
       ELSE IF found = {}
       THEN reqs' = [reqs EXCEPT ![r] = [IdleReq EXCEPT !.pc = "done", !.userId = a.userId,
                                          !.http = 404]]
       ELSE IF wallets[walletId].balance < amount
       THEN reqs' = [reqs EXCEPT ![r] = [IdleReq EXCEPT !.pc = "done", !.userId = a.userId,
                                          !.walletId = walletId, !.amount = amount,
                                          !.http = 500]]
       ELSE reqs' = [reqs EXCEPT ![r] = [IdleReq EXCEPT !.pc = "withdraw.checked",
                                          !.userId = a.userId, !.walletId = walletId,
                                          !.token = currency, !.amount = amount,
                                          !.balance = wallets[walletId].balance]]
    /\ UNCHANGED <<users, admins, sessions, jwtIssued, jwtExpired, wallets, transactions,
                   extCalls, notifications, hooks, lastResp, configured>>

\* await blockradar.post(.../withdraw)
withdrawFundsPost(r, answer) ==
    /\ reqs[r].pc = "withdraw.checked"
    /\ extCalls' = Append(extCalls,
            WithdrawCall(r, answer, reqs[r].walletId, ExternalAddress, reqs[r].amount))
    /\ IF answer = "accepted"
       THEN reqs' = [reqs EXCEPT ![r].pc = "withdraw.accepted"]
       ELSE Finish(r, 500)
    /\ UNCHANGED <<users, admins, sessions, jwtIssued, jwtExpired, wallets, transactions,
                   notifications, hooks, lastResp, configured>>

\* prisma.wallet.update({ balance: { decrement } }), then
\* prisma.transaction.create; a write that throws ends the call with 500
withdrawFundsWrite(r, db) ==
    /\ reqs[r].pc = "withdraw.accepted"
    /\ LET w == reqs[r].walletId IN
       IF db = "wallet.update fails"
       THEN /\ Finish(r, 500)
            /\ UNCHANGED <<wallets, transactions>>
       ELSE IF db = "transaction.create fails"
       THEN /\ wallets' = [wallets EXCEPT ![w].balance = @ - reqs[r].amount]
            /\ Finish(r, 500)
            /\ UNCHANGED transactions
       ELSE /\ wallets' = [wallets EXCEPT ![w].balance = @ - reqs[r].amount]
            /\ transactions' = Append(transactions,
                    TxRow(reqs[r].userId, w, NoId, "WITHDRAWAL", "PROCESSING",
                          reqs[r].token, reqs[r].amount, 0, ExternalAddress))
            /\ Finish(r, 200)
    /\ UNCHANGED <<users, admins, sessions, jwtIssued, jwtExpired, extCalls, notifications,
                   hooks, lastResp, configured>>

RECURSIVE SumAmounts(_)
SumAmounts(calls) ==
    IF calls = <<>> THEN 0 ELSE Head(calls).amount + SumAmounts(Tail(calls))

\* the total BlockRadar accepted to withdraw from a wallet
AcceptedFrom(w) ==
    SumAmounts(SelectSeq(extCalls, LAMBDA c :
        /\ c.api = "blockradar.withdraw" /\ c.answer = "accepted"
        /\ "walletId" \in DOMAIN c /\ c.walletId = w))

\* two withdrawal requests in any interleaving, no credit
NextWithdrawals ==
    \/ \E r \in ReqIds, auth \in {NoToken, LoggedIn[1].token}, walletId \in {2, 8},
          amount \in Amounts :
            withdrawFundsCheck(r, auth, walletId, "USDT", amount)
    \/ \E r \in ReqIds, answer \in {"accepted", "rejected"} : withdrawFundsPost(r, answer)
    \/ \E r \in ReqIds, db \in WriteOutcomes : withdrawFundsWrite(r, db)

SpecWithdrawals == InitOfframp /\ [][NextWithdrawals]_vars

\* ------------------------------------------- incoming-transaction webhook
InternalApiKey == "INTERNAL_API_KEY"
TxHashes       == {"0xaa", "0xbb"}
UnknownAddress == <<"0x", "unknown">>

\* POST /webhook/incoming up to the existingTx lookup of
\* processIncomingTransaction
processIncomingTransactionCheck(r, apiKey, walletAddress, amount, currency, txHash) ==
    /\ reqs[r].pc = "idle"
    /\ r > 1 => reqs[r - 1].pc # "idle"
    /\ LET found == {i \in DOMAIN wallets :
                        /\ wallets[i].address = walletAddress
                        /\ wallets[i].currency = currency /\ wallets[i].isActive}
           existingTx == {j \in DOMAIN transactions :
                        /\ "externalTxHash" \in DOMAIN transactions[j]
                        /\ transactions[j].externalTxHash = txHash}
       IN
       IF apiKey # InternalApiKey
       THEN reqs' = [reqs EXCEPT ![r] = [IdleReq EXCEPT !.pc = "done", !.http = 401]]
       ELSE IF found = {} \/ existingTx # {}
       THEN reqs' = [reqs EXCEPT ![r] = [IdleReq EXCEPT !.pc = "done", !.reference = txHash,
                                          !.http = 200]]
       ELSE \E w \in found :
            reqs' = [reqs EXCEPT ![r] = [IdleReq EXCEPT !.pc = "incoming.checked",
                                          !.userId = wallets[w].userId, !.walletId = w,
                                          !.token = currency, !.amount = amount,
                                          !.reference = txHash]]
    /\ UNCHANGED <<users, admins, sessions, jwtIssued, jwtExpired, wallets, transactions,
                   extCalls, notifications, hooks, lastResp, configured>>

\* prisma.$transaction: create the RECEIVE row and increment the balance
processIncomingTransactionWrite(r) ==
    /\ reqs[r].pc = "incoming.checked"
    /\ transactions' = Append(transactions,
            TxRow(reqs[r].userId, NoId, reqs[r].walletId, "RECEIVE", "COMPLETED",
                  reqs[r].token, reqs[r].amount, 0, ExternalAddress)
                @@ [externalTxHash |-> reqs[r].reference])
    /\ wallets' = [wallets EXCEPT ![reqs[r].walletId].balance = @ + reqs[r].amount]
    /\ Finish(r, 200)
    /\ UNCHANGED <<users, admins, sessions, jwtIssued, jwtExpired, extCalls, notifications,
                   hooks, lastResp, configured>>

\* the RECEIVE rows that carry a hash
ReceivedWith(txHash) ==
    {j \in DOMAIN transactions :
        /\ transactions[j].type = "RECEIVE"
        /\ "externalTxHash" \in DOMAIN transactions[j]
        /\ transactions[j].externalTxHash = txHash}

\* two deliveries in any interleaving
NextIncoming ==
    \/ \E r \in ReqIds, apiKey \in {InternalApiKey, "other"},
          walletAddress \in {Funded[2].address, Funded[8].address, UnknownAddress},
          amount \in Amounts, txHash \in TxHashes :
            processIncomingTransactionCheck(r, apiKey, walletAddress, amount, "USDT", txHash)
    \/ \E r \in ReqIds : processIncomingTransactionWrite(r)

SpecIncoming == InitOfframp /\ [][NextIncoming]_vars

\* -------------------------------------------- swap and private-key access
KeyResp(op, status, userId, privateKey) ==
    [op |-> op, status |-> status, user |-> userId, privateKey |-> privateKey]

NoKey == <<>>

\* getWalletPrivateKey handing out the key of any active wallet
getWalletPrivateKeyAnyOwner(auth, walletId) ==
    /\ LET a == authenticateToken(auth)
           found == {i \in DOMAIN wallets : i = walletId /\ wallets[i].isActive}
       IN  IF a.status # 200
           THEN lastResp' = KeyResp("private-key", a.status, "", NoKey)
           ELSE IF found = {}
           THEN lastResp' = KeyResp("private-key", 500, a.userId, NoKey)
           ELSE \E w \in found :
                lastResp' = KeyResp("private-key", 200, a.userId,
                                    Decrypt(wallets[w].privateKey))
    /\ UNCHANGED <<users, admins, sessions, jwtIssued, jwtExpired, wallets, transactions,
                   extCalls, notifications, reqs, hooks, configured>>

\* WalletService.getWalletPrivateKey(walletId, userId) for the authenticated
\* caller
getWalletPrivateKey(auth, walletId) ==
    /\ LET a == authenticateToken(auth)
           found == {i \in DOMAIN wallets :
                        i = walletId /\ wallets[i].userId = a.userId /\ wallets[i].isActive}
       IN  IF a.status # 200
           THEN lastResp' = KeyResp("private-key", a.status, "", NoKey)
           ELSE IF found = {}
           THEN lastResp' = KeyResp("private-key", 500, a.userId, NoKey)
           ELSE \E w \in found :
                lastResp' = KeyResp("private-key", 200, a.userId,
                                    Decrypt(wallets[w].privateKey))
    /\ UNCHANGED <<users, admins, sessions, jwtIssued, jwtExpired, wallets, transactions,
                   extCalls, notifications, reqs, hooks, configured>>

\* POST /api/wallets/swap -> WalletService.executeSwap
swap(auth, addressId, inputAmount, answer) ==
    /\ Len(extCalls) < MaxTx
    /\ Len(transactions) < MaxTx
    /\ LET a == authenticateToken(auth)
           found == {i \in DOMAIN wallets :
                        /\ wallets[i].address = addressId
                        /\ wallets[i].userId = a.userId /\ wallets[i].isActive}
       IN  IF a.status # 200
           THEN /\ lastResp' = RespBy("swap", a.status, "")
                /\ UNCHANGED <<transactions, extCalls>>
           ELSE IF found = {}
           THEN /\ lastResp' = RespBy("swap", 404, a.userId)
                /\ UNCHANGED <<transactions, extCalls>>
           ELSE \E w \in found :
                /\ extCalls' = Append(extCalls,
                        ExtCall("blockradar.swap", NoId, answer, NoId, addressId,
                                ExternalAddress, inputAmount, ""))
                /\ IF answer = "accepted"
                   THEN /\ transactions' = Append(transactions,
                                TxRow(a.userId, w, NoId, "SWAP", "PROCESSING", "SWAP",
                                      inputAmount, 0, ExternalAddress))
                        /\ lastResp' = RespBy("swap", 200, a.userId)
                   ELSE /\ lastResp' = RespBy("swap", 500, a.userId)
                        /\ UNCHANGED transactions
    /\ UNCHANGED <<users, admins, sessions, jwtIssued, jwtExpired, wallets, notifications,
                   reqs, hooks, configured>>

\* the user a wallet address was generated for
AddressOwners(address) == {wallets[i].userId : i \in {j \in DOMAIN wallets :
                                                       wallets[j].address = address}}

Callers == {LoggedIn[i].token : i \in DOMAIN LoggedIn}

\* both users withdraw, swap, off-ramp and ask for keys, naming any wallet
NextOwnership ==
    \/ /\ Len(extCalls) < MaxHooks
       /\ \E auth \in Callers, walletId \in {2, 8}, answer \in {"accepted", "rejected"} :
            withdraw(auth, walletId, "USDT", NoNetwork, 1, answer, 0)
    \/ /\ Len(extCalls) < MaxHooks
       /\ \E auth \in Callers, walletId \in {2, 8}, answer \in {"accepted", "rejected"} :
            swap(auth, wallets[walletId].address, 1, answer)
    \/ \E auth \in Callers \cup {NoToken}, walletId \in {2, 8, NoId} :
            getWalletPrivateKey(auth, walletId)
    \/ /\ Len(extCalls) < MaxHooks
       /\ \E auth \in Callers :
            OrdersInitializeOrder(1, auth, "USDT", 1, "ref-1", Complete, "success")
    \/ \E answer \in {"accepted", "rejected"} : OrdersTransferAsset(1, answer, 0)

SpecOwnership == InitOfframp /\ [][NextOwnership]_vars

\* ------------------------------------------------ PIN setup, step by step
\* the PINs of the two setup requests in flight
RequestPins == <<<<"1", "2", "3", "4">>, <<"4", "3", "2", "1">>, <<"1", "2", "3">>>>

\* setupTransactionPin up to the check of user.transactionPin
setupTransactionPinCheck(r, auth, n) ==
    /\ reqs[r].pc = "idle"
    /\ r > 1 => reqs[r - 1].pc # "idle"
    /\ LET a == authenticateToken(auth) IN
       IF a.status # 200
       THEN reqs' = [reqs EXCEPT ![r] = [IdleReq EXCEPT !.pc = "done", !.http = a.status]]
       ELSE IF \/ ~PinFormatOk(RequestPins[n])
               \/ a.userId \notin Users \/ ~users[a.userId].registered
               \/ users[a.userId].transactionPin # NoPin
       THEN reqs' = [reqs EXCEPT ![r] = [IdleReq EXCEPT !.pc = "done", !.userId = a.userId,
                                          !.amount = n, !.http = 400]]
       ELSE reqs' = [reqs EXCEPT ![r] = [IdleReq EXCEPT !.pc = "pin.checked",
                                          !.userId = a.userId, !.amount = n]]
    /\ UNCHANGED <<users, admins, sessions, jwtIssued, jwtExpired, wallets, transactions,
                   extCalls, notifications, hooks, lastResp, configured>>

\* hashPassword(pin), then prisma.user.update({ transactionPin: hashedPin })
setupTransactionPinWrite(r, salt) ==
    /\ reqs[r].pc = "pin.checked"
    /\ users' = [users EXCEPT ![reqs[r].userId].transactionPin =
                    hashPassword(RequestPins[reqs[r].amount], salt)]
    /\ Finish(r, 200)
    /\ UNCHANGED <<admins, sessions, jwtIssued, jwtExpired, wallets, transactions, extCalls,
                   notifications, hooks, lastResp, configured>>

\* two setup requests in any interleaving with updates and admin resets
NextPinSetup ==
    \/ \E r \in ReqIds, auth \in {NoToken, LoggedIn[2].token}, n \in DOMAIN RequestPins :
            setupTransactionPinCheck(r, auth, n)
    \/ \E r \in ReqIds, salt \in Salts : setupTransactionPinWrite(r, salt)
    \/ \E currentPin \in Pins, newPin \in Pins :
            updateTransactionPin(LoggedIn[2].token, currentPin, newPin, "salt1")
    \/ \E userId \in Users : resetUserPin(AccessToken("adm1", 3), userId)

SpecPinSetup == InitPin /\ [][NextPinSetup]_vars

\* ======================================================= off-ramp order flow
Succeeded(r) == reqs[r].pc = "done" /\ reqs[r].http = 200

OrderCallOf(r) == {i \in DOMAIN extCalls : /\ extCalls[i].api = "paycrest.orders"
                                           /\ extCalls[i].req = r}
WithdrawCallOf(r) == {i \in DOMAIN extCalls : /\ extCalls[i].api = "blockradar.withdraw"
                                              /\ extCalls[i].req = r}

RECURSIVE DebitedIn(_, _)
DebitedIn(rs, w) ==
    IF rs = {} THEN 0
    ELSE LET r == CHOOSE x \in rs : TRUE IN
         (IF Succeeded(r) /\ reqs[r].walletId = w THEN reqs[r].amount ELSE 0)
            + DebitedIn(rs \ {r}, w)

\* C1: every withdrawal call made to the custody provider comes after a
\* successful sell-order creation of the same request, carries the requested
\* amount and goes to the receive address returned for that order; a request
\* whose order creation failed has no withdrawal call.
C1_WithdrawalOnlyAfterOrder ==
    \A i \in DOMAIN extCalls :
        extCalls[i].api = "blockradar.withdraw" =>
            \E j \in 1..(i - 1) :
                /\ extCalls[j].api = "paycrest.orders"
                /\ extCalls[j].answer = "success"
                /\ extCalls[j].req = extCalls[i].req
                /\ extCalls[i].toAddress = extCalls[j].toAddress
                /\ extCalls[i].amount = reqs[extCalls[i].req].amount
                /\ extCalls[i].amount = extCalls[j].amount

\* a withdrawal was issued for one request while the other request's order
\* creation failed and ended without one
C1_Witness ==
    \E r, q \in ReqIds :
        /\ WithdrawCallOf(r) # {}
        /\ reqs[q].pc = "done" /\ reqs[q].http = 500
        /\ \E j \in OrderCallOf(q) : extCalls[j].answer = "error"
        /\ WithdrawCallOf(q) = {}

\* C2: for every order request answered with success the custody provider
\* has accepted the withdrawal and the wallet is debited by the amount, and
\* until a settlement webhook is accepted its ledger row is PROCESSING.
C2_DebitedWhileProcessing ==
    \A r \in ReqIds :
        Succeeded(r) =>
            /\ \E i \in WithdrawCallOf(r) : extCalls[i].answer = "accepted"
            /\ wallets[reqs[r].walletId].balance =
                  Funded[reqs[r].walletId].balance - DebitedIn(ReqIds, reqs[r].walletId)
            /\ DebitedIn(ReqIds, reqs[r].walletId) >= reqs[r].amount
            /\ (\A h \in DOMAIN hooks : hooks[h].http # 200) =>
                  transactions[reqs[r].txId].status = "PROCESSING"

\* the money has left, the row is PROCESSING and no webhook has arrived
C2_Witness ==
    \E r \in ReqIds :
        /\ Succeeded(r)
        /\ \E i \in WithdrawCallOf(r) : extCalls[i].answer = "accepted"
        /\ wallets[reqs[r].walletId].balance < Funded[reqs[r].walletId].balance
        /\ transactions[reqs[r].txId].status = "PROCESSING"
        /\ hooks = <<>>

\* C3: nothing is deduplicated: every order request answered with success has
\* its own sell order, its own accepted withdrawal and its own ledger row, and
\* every wallet is debited by the sum of the amounts of all of them.
C3_NotExactlyOnce ==
    /\ \A r \in ReqIds :
          Succeeded(r) =>
            /\ \E j \in OrderCallOf(r) : /\ extCalls[j].answer = "success"
                                         /\ extCalls[j].orderId = reqs[r].orderId
                                         /\ extCalls[j].reference = reqs[r].reference
            /\ \E i \in WithdrawCallOf(r) : extCalls[i].answer = "accepted"
            /\ transactions[reqs[r].txId].amount = reqs[r].amount
    /\ \A r, q \in ReqIds :
          Succeeded(r) /\ Succeeded(q) /\ r # q =>
            reqs[r].orderId # reqs[q].orderId /\ reqs[r].txId # reqs[q].txId
    /\ Len(transactions) = Cardinality({r \in ReqIds : Succeeded(r)})
    /\ \A w \in DOMAIN wallets :
          wallets[w].balance = Funded[w].balance - DebitedIn(ReqIds, w)

\* two requests with the same reference and body were both executed
C3_Witness ==
    /\ Succeeded(1) /\ Succeeded(2)
    /\ reqs[1].reference = reqs[2].reference
    /\ reqs[1].userId = reqs[2].userId /\ reqs[1].token = reqs[2].token
    /\ reqs[1].amount = reqs[2].amount
    /\ reqs[1].walletId = reqs[2].walletId
    /\ Len(PaycrestOrders) = 2
    /\ Len(SelectSeq(extCalls, LAMBDA c : c.api = "blockradar.withdraw" /\ c.answer = "accepted")) = 2
    /\ wallets[reqs[1].walletId].balance = Funded[reqs[1].walletId].balance - 2 * reqs[1].amount

C4_WebhookSettlesOrderRow ==
    [][\A r \in ReqIds :
          (/\ Succeeded(r)
           /\ Len(hooks') = Len(hooks) + 1
           /\ hooks'[Len(hooks')].valid
           /\ hooks'[Len(hooks')].orderId = OrderId(reqs[r].orderId)
           /\ hooks'[Len(hooks')].status \in TransactionStatus) =>
            /\ transactions'[reqs[r].txId].status = hooks'[Len(hooks')].status
            /\ users[reqs[r].userId].firebaseToken =>
                  Len(notifications') = Len(notifications) + 1
      ]_vars


\* ========================================================== wallet creation
ProviderKeys == {BlockRadarAddress(u, n).privateKey : u \in Users, n \in Networks}

\* C6: the privateKey of every stored wallet row is the encryption of key
\* material that BlockRadar returned.
C6_KeysComeFromProvider ==
    \A i \in DOMAIN wallets : Decrypt(wallets[i].privateKey) \in ProviderKeys


\* ==================================================== balance reconciliation
\* what a provider answer says the balance is: the number its string
\* denotes, 0 when there is no balance or no entry
Reported(entry) ==
    CASE entry.balance = "1" -> 1
      [] entry.balance = "2" -> 2
      [] OTHER -> 0

\* C7: after a successful GET /balance the refreshed wallet's stored balance
\* is the balance BlockRadar reported in that call; after a successful POST
\* /balances every refreshed wallet holds the reported balance of its asset,
\* or 0 when the provider lists none.
C7_ReconciledWithProvider ==
    /\ (lastResp.op = "balance" /\ lastResp.status = 200) =>
            wallets[lastResp.wallet].balance = Reported(lastResp.blockRadarBalance)
    /\ (lastResp.op = "balances" /\ lastResp.status = 200) =>
            \A i \in lastResp.wallets :
                wallets[i].balance =
                    Reported(Find(lastResp.blockRadarBalances, wallets[i].assetId))

\* a GET lowered a wallet that held more than the provider reports
C7_Witness ==
    /\ lastResp.op = "balance" /\ lastResp.status = 200
    /\ Funded[lastResp.wallet].balance > 1
    /\ lastResp.blockRadarBalance.balance = "1"
    /\ wallets[lastResp.wallet].balance = 1


\* ================================================================== admin
AdminOps == {"admin.freeze", "admin.unfreeze", "admin.adjust-balance", "admin.reverse"}

\* C8: an admin endpoint other than /admin/login carries out its operation
\* only for a request whose token was issued by /admin/login; without a
\* token, with an invalid token or with an ordinary user's token it answers
\* with an error.
C8_AdminTokenRequired ==
    (lastResp.op \in AdminOps /\ lastResp.status = 200) => lastResp.user \in admins

\* C9: while an account is frozen the user is inactive with no active
\* session, and no login, token refresh or withdrawal on the user's behalf
\* succeeds.
C9_FrozenAccountIsLocked ==
    /\ \A i \in DOMAIN sessions :
            ~users[sessions[i].userId].isActive => ~sessions[i].isActive
    /\ (lastResp.op \in {"login", "refresh", "withdraw"} /\ lastResp.status = 200) =>
            users[lastResp.user].isActive

\* C10: reverseTransaction succeeds only for a COMPLETED transaction; it then
\* appends exactly one COMPLETED reversal row with the same amount and with
\* sender and receiver swapped, raises the sender wallet by amount + fee and
\* lowers the receiver wallet by amount, and touches no other wallet or row;
\* for any other status it fails and changes neither wallets nor ledger.
C10_ReverseCompletedOnly ==
    [][(lastResp'.op = "admin.reverse" /\ hooks' = hooks) =>
         LET t == lastResp'.transactionId IN
         IF lastResp'.status = 200
         THEN /\ t \in DOMAIN transactions
              /\ transactions[t].status = "COMPLETED"
              /\ Len(transactions') = Len(transactions) + 1
              /\ \A i \in DOMAIN transactions : transactions'[i] = transactions[i]
              /\ LET reversal == transactions'[Len(transactions')]
                     sender == transactions[t].senderWalletId
                     receiver == transactions[t].receiverWalletId
                 IN  /\ reversal.status = "COMPLETED"
                     /\ reversal.amount = transactions[t].amount
                     /\ reversal.senderWalletId = receiver
                     /\ reversal.receiverWalletId = sender
                     /\ reversal.originalTransactionId = t
                     /\ \A w \in DOMAIN wallets :
                            wallets'[w].balance = wallets[w].balance
                                + (IF w = sender
                                   THEN transactions[t].amount + transactions[t].fee ELSE 0)
                                - (IF w = receiver THEN transactions[t].amount ELSE 0)
         ELSE /\ wallets' = wallets
              /\ transactions' = transactions
              /\ (t \in DOMAIN transactions /\ lastResp'.status = 500) =>
                    transactions[t].status # "COMPLETED"
      ]_vars

\* a settled withdrawal that carried a fee has been reversed: the reversal
\* row is in the ledger and the sender wallet is back at its funded balance
\* plus the fee
C10_Witness ==
    /\ lastResp.op = "admin.reverse" /\ lastResp.status = 200
    /\ LET t == lastResp.transactionId IN
       /\ transactions[t].fee > 0
       /\ transactions[t].senderWalletId # NoId
       /\ transactions[Len(transactions)].originalTransactionId = t
       /\ wallets[transactions[t].senderWalletId].balance
            = Funded[transactions[t].senderWalletId].balance + transactions[t].fee

\* ======================================================== manual controls
\* C11: cancelTransaction moves a transaction to CANCELLED only when its
\* status is PENDING; in any other status the call fails and the transaction
\* stays as it was.
C11_CancelPendingOnly ==
    [][(lastResp'.op = "admin.cancel" /\ hooks' = hooks) =>
         LET t == lastResp'.transactionId IN
         IF lastResp'.status = 200
         THEN /\ t \in DOMAIN transactions
              /\ transactions[t].status = "PENDING"
              /\ transactions'[t].status = "CANCELLED"
         ELSE transactions' = transactions
      ]_vars

\* C12: approveTransaction succeeds only for a PENDING transaction and then
\* sets its status to COMPLETED and its completedAt, changing nothing else;
\* in any other status it fails and the ledger stays as it was.
C12_ApprovePendingOnly ==
    [][(lastResp'.op = "admin.approve" /\ hooks' = hooks) =>
         LET t == lastResp'.transactionId IN
         IF lastResp'.status = 200
         THEN /\ t \in DOMAIN transactions
              /\ transactions[t].status = "PENDING"
              /\ transactions' = [transactions EXCEPT ![t].status = "COMPLETED",
                                                      ![t].completedAt = TRUE]
              /\ wallets' = wallets
         ELSE /\ transactions' = transactions
              /\ wallets' = wallets
              /\ (t \in DOMAIN transactions /\ lastResp'.status = 500) =>
                    transactions[t].status # "PENDING"
      ]_vars

\* a failed withdrawal was retried and then approved
C12_Witness ==
    /\ lastResp.op = "admin.approve" /\ lastResp.status = 200
    /\ transactions[lastResp.transactionId].status = "COMPLETED"
    /\ transactions[lastResp.transactionId].completedAt
    /\ transactions[lastResp.transactionId].retryCount = 1

\* C13: retryTransaction succeeds only for a FAILED transaction and then
\* sets its status to PENDING and raises its retry count by exactly one; in
\* any other status it fails and the ledger stays as it was.
C13_RetryFailedOnly ==
    [][(lastResp'.op = "admin.retry" /\ hooks' = hooks) =>
         LET t == lastResp'.transactionId IN
         IF lastResp'.status = 200
         THEN /\ t \in DOMAIN transactions
              /\ transactions[t].status = "FAILED"
              /\ transactions' = [transactions EXCEPT
                                    ![t].status = "PENDING",
                                    ![t].retryCount = transactions[t].retryCount + 1]
         ELSE /\ transactions' = transactions
              /\ (t \in DOMAIN transactions /\ lastResp'.status = 500) =>
                    transactions[t].status # "FAILED"
      ]_vars

\* a transaction that failed twice has been retried for the second time
C13_Witness ==
    /\ lastResp.op = "admin.retry" /\ lastResp.status = 200
    /\ transactions[lastResp.transactionId].status = "PENDING"
    /\ transactions[lastResp.transactionId].retryCount = 2

\* ===================================================== balance adjustment
\* C14: an adjustBalance call that succeeds changes the wallet's balance by
\* exactly its signed amount, whatever else changed the wallet while the call
\* was running, and appends one COMPLETED row for the absolute amount, DEPOSIT
\* for a positive and WITHDRAWAL for a negative amount; a call that would make
\* the balance negative or names another user's wallet changes nothing.
C14_AdjustByExactlyAmount ==
    [][\A r \in ReqIds :
          /\ (reqs[r].pc = "adjust.read" /\ reqs'[r].pc = "done") =>
                LET w == reqs[r].walletId
                    amount == reqs[r].amount
                    row == transactions'[Len(transactions')]
                IN  /\ wallets'[w].balance = wallets[w].balance + amount
                    /\ Len(transactions') = Len(transactions) + 1
                    /\ row.status = "COMPLETED"
                    /\ row.amount = (IF amount < 0 THEN 0 - amount ELSE amount)
                    /\ amount > 0 => row.type = "DEPOSIT"
                    /\ amount < 0 => row.type = "WITHDRAWAL"
          /\ (reqs[r].pc = "idle" /\ reqs'[r].pc = "done") =>
                /\ wallets' = wallets
                /\ transactions' = transactions
      ]_vars

\* C15: a successful recreditUser raises the wallet's balance by exactly the
\* given amount and appends one COMPLETED DEPOSIT row of that amount flagged
\* as a re-credit; no call lowers a wallet balance.
C15_RecreditRaisesBalance ==
    [][(lastResp'.op = "admin.recredit" /\ reqs' = reqs) =>
         /\ \A w \in DOMAIN wallets : wallets'[w].balance >= wallets[w].balance
         /\ IF lastResp'.status = 200
            THEN LET w == lastResp'.walletId
                     row == transactions'[Len(transactions')]
                 IN  /\ wallets'[w].balance = wallets[w].balance + lastResp'.amount
                     /\ Len(transactions') = Len(transactions) + 1
                     /\ row.type = "DEPOSIT" /\ row.status = "COMPLETED"
                     /\ row.amount = lastResp'.amount /\ row.isRecredit
                     /\ row.receiverWalletId = w
            ELSE /\ wallets' = wallets
                 /\ transactions' = transactions
      ]_vars

\* ========================================================= transaction PIN
\* C16: a successful admin reset-pin leaves the user without a transaction
\* PIN; and for a user without a PIN the status reports that none is set,
\* verifyTransactionPin fails with 'Transaction PIN not set', and
\* setupTransactionPin with a well-formed PIN succeeds and stores it.
C16_ResetClearsPin ==
    [][/\ (lastResp'.op = "admin.reset-pin" /\ lastResp'.status = 200) =>
              users'[lastResp'.message].transactionPin = NoPin
       /\ \A u \in Users :
            (users[u].transactionPin = NoPin /\ lastResp'.status \notin {401, 403}
                /\ lastResp'.user = u) =>
              /\ lastResp'.op = "pin-status" => lastResp'.message = FALSE
              /\ lastResp'.op = "verify-transaction-pin" =>
                    /\ lastResp'.status = 400
                    /\ lastResp'.message \in
                          {"Transaction PIN not set. Please setup your PIN first.",
                           "PIN must be 4-6 digits"}
              /\ lastResp'.op = "setup-transaction-pin" =>
                    \/ lastResp'.status = 400 /\ lastResp'.message = "PIN must be 4-6 digits"
                    \/ /\ lastResp'.status = 200
                       /\ \E pin \in Pins : /\ PinFormatOk(pin)
                                            /\ verifyPassword(pin, users'[u].transactionPin)
      ]_vars

\* the first user, who had a PIN at the start, has just set one up: only a
\* reset can have removed the old one
C16_Witness ==
    /\ lastResp.op = "setup-transaction-pin" /\ lastResp.status = 200
    /\ lastResp.user = "u1"
    /\ verifyPassword(<<"4", "3", "2", "1">>, users["u1"].transactionPin)

\* ===================================================== account verification
\* C17: every sell order created at Paycrest for a recipient account is
\* preceded by a successful verification of that same account.
C17_VerifiedBeforeOrder ==
    \A i \in DOMAIN extCalls :
        (extCalls[i].api = "paycrest.orders" /\ extCalls[i].answer = "success") =>
            \E j \in 1..(i - 1) :
                /\ VerificationSucceeded(j)
                /\ extCalls[j].accountNumber = extCalls[i].recipient.accountIdentifier

C19_ApproveKYCFrame ==
    [][(lastResp'.op = "admin.kyc.approve" /\ lastResp'.status = 200) =>
        \E f \in FindVerification(lastResp'.verificationId) :
            LET u == f[1]
                i == f[2]
                before == users[u].verifications[i]
                after == users'[u].verifications[i]
            IN  /\ after = [before EXCEPT !.status = "APPROVED", !.reviewedAt = after.reviewedAt]
                /\ after.reviewedAt # NoDate
                /\ before.type = "NIN" => users'[u].ninVerified
                /\ before.type = "EMAIL" => users'[u].isVerified
                /\ users'[u].ninVerified = (users[u].ninVerified \/ before.type = "NIN")
                /\ users'[u].isVerified = (users[u].isVerified \/ before.type = "EMAIL")
                /\ \A j \in DOMAIN users[u].verifications :
                        j # i => users'[u].verifications[j] = users[u].verifications[j]
                /\ DOMAIN users'[u].verifications = DOMAIN users[u].verifications
                /\ users'[u].transactionPin = users[u].transactionPin
                /\ users'[u].isActive = users[u].isActive
                /\ \A other \in Users \ {u} : users'[other] = users[other]
      ]_vars

\* the first user's NIN verification was approved and the EMAIL one rejected
C19_Witness ==
    /\ lastResp = KycResp("admin.kyc.approve", 200, 1)
    /\ users["u1"].verifications[1].status = "APPROVED"
    /\ users["u1"].verifications[2].status = "REJECTED"
    /\ users["u1"].ninVerified /\ ~users["u1"].isVerified
    /\ users["u2"].verifications[1].status = "PENDING"

C21_AdminAuthFailureIs401 ==
    lastResp.op \in {"admin.profile", "admin.freeze", "admin.unfreeze"} =>
        lastResp.status # 403

\* ================================================== withdrawals interleaved
\* C22: with no credit in between, the total the custody provider accepted to
\* withdraw from a wallet never exceeds the balance the wallet started with,
\* and no balance is negative.
C22_NoOverdraft ==
    \A w \in DOMAIN wallets :
        /\ AcceptedFrom(w) <= Funded[w].balance
        /\ wallets[w].balance >= 0

\* C23: when a withdrawal the provider accepted returns, the wallet balance
\* is lower by exactly the amount and exactly one PROCESSING transaction
\* records it; when the provider did not accept, neither table changes.
C23_LedgerMatchesProvider ==
    [][\A r \in ReqIds :
        /\ (reqs[r].pc = "withdraw.accepted" /\ reqs'[r].pc = "done") =>
              LET w == reqs[r].walletId IN
              /\ wallets'[w].balance = wallets[w].balance - reqs[r].amount
              /\ Len(transactions') = Len(transactions) + 1
              /\ transactions'[Len(transactions')].status = "PROCESSING"
              /\ transactions'[Len(transactions')].senderWalletId = w
              /\ transactions'[Len(transactions')].amount = reqs[r].amount
        /\ (reqs[r].pc = "withdraw.checked" /\ reqs'[r].pc = "done") =>
              wallets' = wallets /\ transactions' = transactions
      ]_vars

\* ======================================================= incoming deposits
\* C24: however many deliveries of a notification with one txHash arrive,
\* one after another or at the same time, at most one RECEIVE transaction
\* with that hash exists and the wallet is credited exactly once for it.
C24_CreditedOnce ==
    \A txHash \in TxHashes :
        /\ Cardinality(ReceivedWith(txHash)) <= 1
        /\ \A w \in DOMAIN wallets :
              wallets[w].balance - Funded[w].balance
                 <= MaxAmount * Cardinality({h \in TxHashes : ReceivedWith(h) # {}})

\* ========================================================= wallet ownership
\* C25: withdraw, off-ramp transfer, swap and getWalletPrivateKey act only on
\* wallets of the authenticated caller: a step debits only the caller's
\* wallets, moves funds only from the caller's addresses and reveals only the
\* caller's keys, and a request naming another user's wallet fails and
\* changes nothing.
C25_OnlyOwnWallets ==
    [][/\ \A i \in DOMAIN wallets :
            wallets'[i].balance < wallets[i].balance =>
                IF reqs' # reqs
                THEN \E r \in ReqIds : reqs'[r] # reqs[r] /\ reqs'[r].userId = wallets[i].userId
                ELSE lastResp'.user = wallets[i].userId
       /\ Len(extCalls') > Len(extCalls) =>
            LET call == extCalls'[Len(extCalls')] IN
            call.api \in {"blockradar.withdraw", "blockradar.swap"} =>
                IF call.req = NoId THEN AddressOwners(call.from) = {lastResp'.user}
                ELSE AddressOwners(call.from) = {reqs'[call.req].userId}
       /\ (lastResp'.op = "private-key" /\ lastResp'.privateKey # NoKey) =>
            \E i \in DOMAIN wallets :
                /\ wallets[i].userId = lastResp'.user
                /\ Decrypt(wallets[i].privateKey) = lastResp'.privateKey
       /\ \A auth \in Callers, walletId \in {2, 8} :
            authenticateToken(auth).userId # wallets[walletId].userId =>
                /\ \A answer \in {"accepted", "rejected"} :
                      withdraw(auth, walletId, "USDT", NoNetwork, 1, answer, 0) =>
                          /\ lastResp'.status = 404
                          /\ UNCHANGED <<wallets, transactions, extCalls>>
                /\ \A answer \in {"accepted", "rejected"} :
                      swap(auth, wallets[walletId].address, 1, answer) =>
                          /\ lastResp'.status = 404
                          /\ UNCHANGED <<wallets, transactions, extCalls>>
                /\ getWalletPrivateKey(auth, walletId) =>
                          /\ lastResp'.status = 500 /\ lastResp'.privateKey = NoKey
                          /\ UNCHANGED <<wallets, transactions, extCalls>>
      ]_vars

\* the second user asked for the first user's key and was refused, after the
\* first user had withdrawn from an own wallet
C25_Witness ==
    /\ lastResp.op = "private-key" /\ lastResp.user = "u2" /\ lastResp.status = 500
    /\ \E j \in DOMAIN transactions :
          transactions[j].type = "WITHDRAWAL" /\ transactions[j].userId = "u1"
    /\ \E j \in DOMAIN transactions :
          transactions[j].type = "SWAP" /\ transactions[j].userId = "u1"

\* ============================================================ token refresh
\* C26: refreshToken accepts the refresh token stored on an active session of
\* an active user (and replaces the session's tokens), and rejects every
\* other token.
C26_StoredRefreshTokenAccepted ==
    [][\A token \in RefreshInputs :
          refreshToken(token) =>
             LET stored == {i \in DOMAIN sessions :
                              /\ sessions[i].isActive
                              /\ users[sessions[i].userId].isActive
                              /\ RefreshToken(sessions[i].userId, sessions[i].token.n) = token}
             IN  IF stored # {}
                 THEN /\ lastResp'.status = 200
                      /\ \E i \in stored : sessions'[i].token # sessions[i].token
                 ELSE lastResp'.status = 401 /\ sessions' = sessions
      ]_vars

\* ========================================================== double reversal
\* C27: once a transaction has been reversed, a further reverseTransaction on
\* it, or on the reversal transaction created for it, fails and leaves every
\* wallet balance unchanged.
C27_ReversedAtMostOnce ==
    [][\A transactionId \in DOMAIN transactions :
          (/\ reverseTransactionRoute(AdminToken, transactionId)
           /\ \/ \E j \in DOMAIN transactions :
                    transactions[j].originalTransactionId = transactionId
              \/ transactions[transactionId].originalTransactionId # NoId)
          => /\ lastResp'.status # 200
             /\ wallets' = wallets
      ]_vars

\* ========================================================= terminal statuses
\* C28: a transaction whose status is COMPLETED or CANCELLED keeps that
\* status through every admin action and settlement webhook that follows.
C28_TerminalStatusesStay ==
    [][\A i \in DOMAIN transactions :
          transactions[i].status \in {"COMPLETED", "CANCELLED"} =>
              transactions'[i].status = transactions[i].status
      ]_vars

\* ============================================================ PIN changes
\* C29: a user's stored PIN changes only by a setup made while no PIN is
\* set, by an update given the correct current PIN, or by an admin reset, in
\* any interleaving of these calls.
C29_PinChangesOnlyAsAllowed ==
    [][\A u \in Users :
          users'[u].transactionPin # users[u].transactionPin =>
             \/ /\ users[u].transactionPin = NoPin
                /\ \E r \in ReqIds : /\ reqs[r].pc = "pin.checked" /\ reqs'[r].pc = "done"
                                     /\ reqs[r].userId = u
             \/ /\ reqs' = reqs
                /\ lastResp'.op = "update-transaction-pin" /\ lastResp'.status = 200
                /\ lastResp'.user = u
                /\ \E currentPin \in Pins :
                      verifyPassword(currentPin, users[u].transactionPin)
             \/ /\ reqs' = reqs
                /\ lastResp'.op = "admin.reset-pin" /\ lastResp'.status = 200
      ]_vars

\* ======================================================== webhook signature
\* C30: a webhook request whose signature is not the HMAC of its body under
\* the webhook secret is answered with 403, changes no transaction and sends
\* no notification; a webhook changes a transaction only when it is signed
\* with the webhook secret.
C30_UnsignedWebhookRejected ==
    [][Len(hooks') > Len(hooks) =>
          \A orderId \in WebhookIds, status \in WebhookStatuses :
             LET body == [orderId |-> orderId, status |-> status] IN
             \A signature \in Signatures(body) :
                transactionStatusTracker(signature, body) =>
                   /\ signature # Hmac(WebhookSecret, body) =>
                         /\ hooks'[Len(hooks')].http = 403
                         /\ UNCHANGED <<transactions, notifications, wallets>>
                   /\ transactions' # transactions => signature = Hmac(WebhookSecret, body)
      ]_vars

\* a delivery signed with another secret was refused with 403 and a delivery
\* signed with the webhook secret changed a transaction's status
C30_Witness ==
    /\ \E h \in DOMAIN hooks : ~hooks[h].valid /\ hooks[h].http = 403
    /\ \E h \in DOMAIN hooks : hooks[h].valid /\ hooks[h].http = 200
    /\ \E j \in DOMAIN transactions : transactions[j].status \in {"COMPLETED", "FAILED"}

====
